---- MODULE Spec2Model ----
(***************************************************************************)
(* Model of the client-side data-access layer of tsk-csai:                 *)
(*   - the authenticated HTTP request pipeline (services/api-client.ts)    *)
(*     with its 401-triggered single-flight token refresh and the queue    *)
(*     of requests waiting behind a refresh;                               *)
(*   - the token store it reads and refreshes (auth-service);              *)
(*   - the singleton WebSocket connection manager                          *)
(*     (lib/websocket-manager.ts);                                         *)
(*   - the retry helper with exponential backoff (utils/retry.ts);         *)
(*   - the auth-service operations on the token store (login, logout,      *)
(*     refreshAccessToken, isTokenExpired);                                *)
(*   - the error classification (utils/error-handler.ts);                  *)
(*   - the reconnecting raw socket hook (hooks/use-raw-websocket.ts).      *)
(* Each subsystem has its own specification over the shared variables.     *)
(***************************************************************************)
EXTENDS Integers, Sequences, FiniteSets, TLC

\* ------------------------------------------------------------------ bounds
\* Number of API calls issued through the pipeline.
NumRequests == 2

Requests == 1..NumRequests

\* Sockets the manager may create, calls made on the manager, message events.
MaxSockets == 3
MaxCalls == 2
MaxFrames == 2
\* Calls made of the unsubscribe functions subscribe and subscribeToStatus returned.
MaxUnsubscribes == 2
\* Data callbacks and status callbacks the application owns.
NumCallbacks == 2
NumStatusCallbacks == 1
\* Message events of the run that fills the history, and how many of them fail to parse.
HistoryFrames == 102
MaxBadFrames == 1

\* The largest maxAttempts a retry configuration is drawn with.
MaxAttempts == 3
\* The attempts a backoff schedule is computed for are 0 .. MaxBackoffAttempts - 1.
MaxBackoffAttempts == 18
\* The largest finite number (Number.MAX_VALUE), scaled down: above it arithmetic
\* overflows to Infinity.
MaxValue == 65536
\* Calls made on the auth-service, and advances of the clock.
MaxAuthCalls == 3
MaxTicks == 2
MaxReconnects == 2
MaxRawSockets == 4

Callbacks == 1..NumCallbacks
StatusCallbacks == 1..NumStatusCallbacks

\* null / undefined
Null == <<>>

VARIABLES
  \* ---- services/api-client.ts
  isRefreshing,     \* module flag, api-client.ts:10
  requestQueue,     \* QueuedRequest[], api-client.ts:11
  config,           \* per request: its InternalAxiosRequestConfig (_retry, headers.Authorization)
  phase,            \* per request: where its call is
  error,            \* per request: the value its caller's promise was rejected with
  refreshCall,      \* per request: the refreshAccessToken() promise its handler awaits
  locationHref,     \* window.location.href
  \* ---- auth-service (token store)
  localStorage,
  sessionStorage,
  \* ---- history (observations of the calls made, not program state)
  refreshLog,       \* one entry per call of refreshAccessToken: the cycle it was made in
  logoutLog,        \* one entry per call of logout: the cycle it was made in
  cycles,           \* one entry per refresh whose continuation has run
  replays,          \* per request: the replays axiosInstance(config) made of it
  settles,          \* per request: the resolve/reject calls on its queue entries
  enq,              \* per request: the cycles in which it was pushed on requestQueue
  \* ---- lib/websocket-manager.ts (one url)
  readyState,       \* per socket created by the manager, in creation order: ws.readyState
  instances,        \* per socket: the WebSocketInstance built around it
  connections,      \* the registry entry of the url: the registered instance, if any
  reconnectTimers,  \* pending setTimeout(() => this.connect(url), 2000)
  replayTimers,     \* pending setTimeout(replay, 0), in scheduling order
  handles,          \* the unsubscribe closures returned so far: <<kind, instance, callback>>
  disconnected,     \* disconnect(url) was called and none of connect, subscribe and
                    \* subscribeToStatus has been called since
  \* ---- history of the manager's environment
  calls,            \* number of calls made on the manager
  unsubscribes,     \* number of calls made of the unsubscribe closures
  frames,           \* number of message events received
  arrived,          \* per socket: the parsed messages in arrival order
  delivered,        \* per data callback: its invocations
  fanout,           \* the data callbacks the last message event invoked, in order
  statusSeen,       \* per status callback: its invocations
  sent,             \* per socket: the payloads handed to ws.send
  replayLog,        \* one entry per replay that ran
  \* ---- utils/retry.ts: one call withRetry(operation, config, shouldRetryError)
  retryConfig,      \* config
  predicate,        \* whether shouldRetryError was supplied
  attempt,          \* the loop variable
  retryPc,          \* where the call is: idle, operation, sleep, resolved, rejected
  lastError,        \* let lastError
  settled,          \* the value the promise of withRetry settled with
  \* ---- history of the call
  invocations,      \* number of invocations of operation
  thrown,           \* the errors operation threw, with the predicate's verdict on each
  waited,           \* the backoff delays waited
  schedule,         \* getRetryDelay(k - 1, retryConfig) for k = 1, 2, ... as computed
  \* ---- auth-service (with localStorage and sessionStorage above)
  now,              \* Math.floor(Date.now() / 1000)
  pendingLogin,     \* the credentials of the login() call waiting on its delay
  pendingRefresh,   \* the refresh token of the refreshAccessToken() call waiting
  \* ---- history of the auth-service calls
  authReturn,       \* the last call that completed and what it returned or threw
  probe,            \* the last isTokenExpired(token) call and its result
  authCalls,        \* number of calls made on the auth-service
  ticks,            \* number of advances of the clock
  \* ---- utils/error-handler.ts: the last applications of its functions
  classified,       \* handleApiError(error): the error, the AppError, its retryability
  retryCheck,       \* isRetryableError(error): the AppError and the result
  \* ---- hooks/use-raw-websocket.ts
  options,              \* reconnection, reconnectionAttempts, reconnectionDelay(Max)
  rawSockets,           \* the WebSockets the hook created: the state of each
  wsRef,                \* wsRef.current: a socket, or 0 for null
  reconnectAttemptsRef, \* reconnectAttemptsRef.current
  reconnectTimeoutRef,  \* reconnectTimeoutRef.current: a timer, or 0 for null
  rawTimers,            \* the timers set by onclose: delay and state of each
  isConnected,
  isConnecting,
  hookError,            \* the error state of the hook
  reconnectsMade,       \* (history) reconnects made since the last successful open
  reconnectsSinceReset, \* (history) reconnects made since the last open or disconnect()
  rawEvent,             \* (history) the last open or close event and what it did
  \* ---- lib/websocket-manager.ts: callbacks that unsubscribe during a fan-out
  reentry               \* (history) the last such fan-out: who unsubscribed whom

httpVars == <<isRefreshing, requestQueue, config, phase, error, refreshCall, locationHref,
              localStorage, sessionStorage,
              refreshLog, logoutLog, cycles, replays, settles, enq>>

wsVars == <<readyState, instances, connections, reconnectTimers, replayTimers, handles,
            disconnected, calls, unsubscribes, frames, arrived, delivered, fanout,
            statusSeen, sent, replayLog>>

retryVars == <<retryConfig, predicate, attempt, retryPc, lastError, settled,
               invocations, thrown, waited, schedule>>

authVars == <<now, pendingLogin, pendingRefresh, authReturn, probe, authCalls, ticks>>

\* The state of the HTTP pipeline without the token store.
pipelineVars == <<isRefreshing, requestQueue, config, phase, error, refreshCall,
                  locationHref, refreshLog, logoutLog, cycles, replays, settles, enq>>

\* What the WebSocket manager, the HTTP pipeline, the retry helper and the
\* auth-service leave alone.
errorVars == <<classified, retryCheck>>
rawVars ==
  <<options, rawSockets, wsRef, reconnectAttemptsRef, reconnectTimeoutRef, rawTimers,
    isConnected, isConnecting, hookError, reconnectsMade, reconnectsSinceReset, rawEvent>>

notWsVars == <<httpVars, retryVars, authVars, errorVars, rawVars, reentry>>
notHttpVars == <<wsVars, retryVars, authVars, errorVars, rawVars, reentry>>
notRetryVars == <<httpVars, wsVars, authVars, errorVars, rawVars, reentry>>
notAuthVars == <<pipelineVars, wsVars, retryVars, errorVars, rawVars, reentry>>
notErrorVars == <<httpVars, wsVars, retryVars, authVars, rawVars, reentry>>
notRawVars == <<httpVars, wsVars, retryVars, authVars, errorVars, reentry>>
notFanOutVars == <<httpVars, retryVars, authVars, errorVars, rawVars>>

vars == <<httpVars, wsVars, retryVars, authVars, errorVars, rawVars, reentry>>

\* ------------------------------------------------------------ token store
Token(n) == <<"jwt", n>>

EmptyStorage == [ACCESS_TOKEN |-> Null, REFRESH_TOKEN |-> Null, EXPIRES_IN |-> Null]

\* (mutant) the session scope is preferred
getStorage_sessionFirst == IF sessionStorage.ACCESS_TOKEN # Null THEN "session" ELSE "local"

\* const getStorage = (): Storage
getStorage == IF localStorage.ACCESS_TOKEN # Null THEN "local" ELSE "session"

getItem(storage, key) == IF storage = "local" THEN localStorage[key] ELSE sessionStorage[key]

getAccessToken == getItem(getStorage, "ACCESS_TOKEN")

getRefreshToken == getItem(getStorage, "REFRESH_TOKEN")

\* (mutant) the new token always goes to the durable scope
StoreRefreshed_local(t) ==
  [local |-> [localStorage EXCEPT !.ACCESS_TOKEN = t, !.EXPIRES_IN = "3600"],
   session |-> sessionStorage]

\* The pair of storages after storage.setItem(ACCESS_TOKEN, t); storage.setItem(EXPIRES_IN, '3600')
\* on the storage getStorage() selects (refreshAccessToken, after its delay).
StoreRefreshed(t) ==
  IF getStorage = "local"
    THEN [local |-> [localStorage EXCEPT !.ACCESS_TOKEN = t, !.EXPIRES_IN = "3600"],
          session |-> sessionStorage]
    ELSE [local |-> localStorage,
          session |-> [sessionStorage EXCEPT !.ACCESS_TOKEN = t, !.EXPIRES_IN = "3600"]]

AccessTokenOf(st) ==
  IF st.local.ACCESS_TOKEN # Null THEN st.local.ACCESS_TOKEN ELSE st.session.ACCESS_TOKEN

\* logout(): every key removed from both scopes
LoggedOut == [local |-> EmptyStorage, session |-> EmptyStorage]

\* ---------------------------------------------------------- HTTP pipeline
Bearer(t) == <<"Bearer", t>>

Statuses == {200, 401, 500}

CurrentCycle == Len(cycles) + 1

\* request interceptor: attach the stored token, if any
RequestInterceptor(cfg, token) ==
  IF token # Null THEN [cfg EXCEPT !.Authorization = Bearer(token)] ELSE cfg

\* formatError for an error that carries a response
formatError(status) == <<"API_ERROR", status>>

RefreshError(cycle) == <<"refreshError", cycle>>

\* if (error.response?.status === 401 && originalRequest && !originalRequest._retry)
ShouldRefresh(status, cfg) == status = 401 /\ ~cfg._retry

\* (mutant) the handler does not look at the flag
RefreshInProgress_never == FALSE

\* if (isRefreshing)
RefreshInProgress == isRefreshing

\* (mutant) the flag is cleared at the end of the try block only
FlagAfterRefresh_tryOnly(ok) == ~ok

\* finally { isRefreshing = false }: the flag after the refresh settled (ok or not)
FlagAfterRefresh(ok) == FALSE

\* (mutant) the queue is not emptied after the forEach
DrainedQueue_kept(q) == q

\* requestQueue = []
DrainedQueue(q) == <<>>

\* typeof window !== 'undefined': the pipeline runs in a browser
WindowDefined == TRUE

\* The part of the state that draining the queue and replaying work on.
Pipe == [config |-> config, phase |-> phase, error |-> error,
         replays |-> replays, settles |-> settles]

\* axiosInstance(config) for the replay of request r, whose result settles the
\* promise of caller c: the request interceptor runs, the call is in flight.
Replay(r, c, stored, ps) ==
  LET cfg == RequestInterceptor(ps.config[r], stored)
  IN [ps EXCEPT !.config[r] = cfg,
                !.phase[c] = "sent",
                !.replays[r] = Append(@, [cycle |-> CurrentCycle,
                                          Authorization |-> cfg.Authorization,
                                          caller |-> c])]

\* (mutant) a queued request is rejected with its own formatted 401, not the refresh error
RejectEntry_own401(request, err, ps) ==
  [ps EXCEPT !.phase[request.promise] = "rejected",
             !.error[request.promise] = formatError(401),
             !.settles[request.promise] =
                 Append(@, [cycle |-> CurrentCycle, kind |-> "reject"])]

\* request.reject(error)
RejectEntry(request, err, ps) ==
  [ps EXCEPT !.phase[request.promise] = "rejected",
             !.error[request.promise] = err,
             !.settles[request.promise] =
                 Append(@, [cycle |-> CurrentCycle, kind |-> "reject"])]

\* (mutant) a queued request gets the new header and is resolved, but is not replayed
ResolveEntry_noReplay(request, token, stored, ps) ==
  LET withToken ==
        IF token # Null
          THEN [ps EXCEPT !.config[request.config].Authorization = Bearer(token)]
          ELSE ps
  IN [withToken EXCEPT !.phase[request.promise] = "fulfilled",
                       !.settles[request.promise] =
                           Append(@, [cycle |-> CurrentCycle, kind |-> "resolve"])]

\* if (token) headers.Authorization = ...; request.resolve(axiosInstance(request.config))
ResolveEntry(request, token, stored, ps) ==
  LET withToken ==
        IF token # Null
          THEN [ps EXCEPT !.config[request.config].Authorization = Bearer(token)]
          ELSE ps
      resolved ==
        [withToken EXCEPT !.settles[request.promise] =
            Append(@, [cycle |-> CurrentCycle, kind |-> "resolve"])]
  IN Replay(request.config, request.promise, stored, resolved)

\* One pass of the forEach of processQueue.
ProcessEntry(request, err, token, stored, ps) ==
  IF err # Null
    THEN RejectEntry(request, err, ps)
    ELSE ResolveEntry(request, token, stored, ps)

RECURSIVE processQueue(_, _, _, _, _)
processQueue(q, err, token, stored, ps) ==
  IF q = <<>> THEN ps
  ELSE processQueue(Tail(q), err, token, stored,
                    ProcessEntry(Head(q), err, token, stored, ps))

PipelineInit ==
  /\ isRefreshing = FALSE
  /\ requestQueue = <<>>
  /\ config = [r \in Requests |-> [_retry |-> FALSE, Authorization |-> Null]]
  /\ phase = [r \in Requests |-> "idle"]
  /\ error = [r \in Requests |-> Null]
  /\ refreshCall = [r \in Requests |-> "none"]
  /\ locationHref = "/"
  /\ refreshLog = <<>>
  /\ logoutLog = <<>>
  /\ cycles = <<>>
  /\ replays = [r \in Requests |-> <<>>]
  /\ settles = [r \in Requests |-> <<>>]
  /\ enq = [r \in Requests |-> <<>>]

HttpInit ==
  /\ PipelineInit
  \* a session opened by login() without rememberMe
  /\ localStorage = EmptyStorage
  /\ sessionStorage = [ACCESS_TOKEN |-> Token(1), REFRESH_TOKEN |-> Token(0),
                       EXPIRES_IN |-> "3600"]

\* apiClient.get/post/...: the request interceptor runs and the call is in flight.
Send(r) ==
  /\ phase[r] = "idle"
  /\ config' = [config EXCEPT ![r] = RequestInterceptor(@, getAccessToken)]
  /\ phase' = [phase EXCEPT ![r] = "sent"]
  /\ UNCHANGED <<isRefreshing, requestQueue, error, refreshCall, locationHref,
                 localStorage, sessionStorage,
                 refreshLog, logoutLog, cycles, replays, settles, enq>>
  /\ UNCHANGED notHttpVars

\* response interceptor, success handler: the caller gets the response.
ResponseOk(r) ==
  /\ phase[r] = "sent"
  /\ phase' = [phase EXCEPT ![r] = "fulfilled"]
  /\ UNCHANGED <<isRefreshing, requestQueue, config, error, refreshCall, locationHref,
                 localStorage, sessionStorage,
                 refreshLog, logoutLog, cycles, replays, settles, enq>>
  /\ UNCHANGED notHttpVars

\* response interceptor, error handler, up to its first suspension.
\* expired: what isTokenExpired(refreshToken) answers inside refreshAccessToken.
ResponseError(r, status, expired) ==
  /\ phase[r] = "sent"
  /\ status # 200
  /\ IF ShouldRefresh(status, config[r])
       THEN IF RefreshInProgress
              THEN /\ requestQueue' = Append(requestQueue, [config |-> r, promise |-> r])
                   /\ phase' = [phase EXCEPT ![r] = "queued"]
                   /\ enq' = [enq EXCEPT ![r] = Append(@, CurrentCycle)]
                   /\ UNCHANGED <<isRefreshing, config, error, refreshCall, refreshLog>>
              ELSE /\ config' = [config EXCEPT ![r]._retry = TRUE]
                   /\ isRefreshing' = TRUE
                   /\ phase' = [phase EXCEPT ![r] = "refreshing"]
                   \* refreshAccessToken(): throws before its delay when there is no
                   \* refresh token or it is expired, else completes after the delay
                   /\ refreshCall' = [refreshCall EXCEPT ![r] =
                         IF getRefreshToken = Null \/ expired THEN "failing" ELSE "running"]
                   /\ refreshLog' = Append(refreshLog, [cycle |-> CurrentCycle, by |-> r])
                   /\ UNCHANGED <<requestQueue, error, enq>>
       ELSE /\ phase' = [phase EXCEPT ![r] = "rejected"]
            /\ error' = [error EXCEPT ![r] = formatError(status)]
            /\ UNCHANGED <<isRefreshing, requestQueue, config, refreshCall, refreshLog, enq>>
  /\ UNCHANGED <<locationHref, localStorage, sessionStorage, logoutLog, cycles,
                 replays, settles>>
  /\ UNCHANGED notHttpVars

\* refreshAccessToken resolves (the new token is stored) and the handler of r resumes
\* in its try block: header, processQueue, replay, finally.
RefreshSucceeds(r) ==
  /\ refreshCall[r] = "running"
  /\ LET newAccessToken == Token(Len(refreshLog) + 1)
         store == StoreRefreshed(newAccessToken)
         own == [Pipe EXCEPT !.config[r].Authorization = Bearer(newAccessToken)]
         drained == processQueue(requestQueue, Null, newAccessToken,
                                 AccessTokenOf(store), own)
         after == Replay(r, r, AccessTokenOf(store), drained)
     IN /\ localStorage' = store.local
        /\ sessionStorage' = store.session
        /\ config' = after.config
        /\ phase' = after.phase
        /\ error' = after.error
        /\ replays' = after.replays
        /\ settles' = after.settles
        /\ cycles' = Append(cycles, [initiator |-> r, ok |-> TRUE,
                                     token |-> newAccessToken])
  /\ requestQueue' = DrainedQueue(requestQueue)
  /\ isRefreshing' = FlagAfterRefresh(TRUE)
  /\ refreshCall' = [refreshCall EXCEPT ![r] = "none"]
  /\ UNCHANGED <<locationHref, refreshLog, logoutLog, enq>>
  /\ UNCHANGED notHttpVars

\* refreshAccessToken rejects and the handler of r resumes in its catch block:
\* processQueue with the error, logout, redirect, reject, finally.
RefreshFails(r) ==
  /\ refreshCall[r] = "failing"
  /\ LET refreshError == RefreshError(CurrentCycle)
         drained == processQueue(requestQueue, refreshError, Null, Null, Pipe)
     IN /\ config' = drained.config
        /\ phase' = [drained.phase EXCEPT ![r] = "rejected"]
        /\ error' = [drained.error EXCEPT ![r] = refreshError]
        /\ replays' = drained.replays
        /\ settles' = drained.settles
  /\ localStorage' = LoggedOut.local
  /\ sessionStorage' = LoggedOut.session
  /\ logoutLog' = Append(logoutLog, CurrentCycle)
  /\ locationHref' = IF WindowDefined THEN "/login" ELSE locationHref
  /\ cycles' = Append(cycles, [initiator |-> r, ok |-> FALSE, token |-> Null])
  /\ requestQueue' = DrainedQueue(requestQueue)
  /\ isRefreshing' = FlagAfterRefresh(FALSE)
  /\ refreshCall' = [refreshCall EXCEPT ![r] = "none"]
  /\ UNCHANGED <<refreshLog, enq>>
  /\ UNCHANGED notHttpVars

HttpNext ==
  \/ \E r \in Requests : Send(r)
  \/ \E r \in Requests : ResponseOk(r)
  \/ \E r \in Requests, status \in Statuses, expired \in BOOLEAN :
       ResponseError(r, status, expired)
  \/ \E r \in Requests : RefreshSucceeds(r)
  \/ \E r \in Requests : RefreshFails(r)

\* ------------------------------------------------ WebSocket manager
\* maxMessages: 100
maxMessages == 100

Range(seq) == {seq[i] : i \in DOMAIN seq}

\* Set.add on an insertion-ordered Set
SetAdd(seq, x) == IF x \in Range(seq) THEN seq ELSE Append(seq, x)

\* (mutant) the whole set is cleared
SetDelete_all(seq, x) == <<>>

\* Set.delete
SetDelete(seq, x) == SelectSeq(seq, LAMBDA y : y # x)

Sockets == DOMAIN readyState

Live(s) == readyState[s] \in {"OPEN", "CONNECTING"}

\* the instance literal of connect()
NewInstance ==
  [subscribers |-> <<>>, statusSubscribers |-> <<>>,
   isConnected |-> FALSE, isConnecting |-> TRUE, error |-> Null,
   lastMessages |-> <<>>, maxMessages |-> maxMessages]

ConnectionError == <<"Error", "WebSocket connection error">>

Status(inst) ==
  [isConnected |-> inst.isConnected, isConnecting |-> inst.isConnecting,
   error |-> inst.error]

\* notifyStatusSubscribers: the invocations of the status callbacks after it
notifyStatusSubscribers(inst, seen) ==
  [cb \in StatusCallbacks |->
     IF cb \in Range(inst.statusSubscribers) THEN Append(seen[cb], Status(inst))
     ELSE seen[cb]]

\* JSON.parse(event.data): a frame is text that parses to a value, or does not parse
JSONparse(frame) ==
  IF frame.valid THEN [ok |-> TRUE, data |-> <<"data", frame.text>>] ELSE [ok |-> FALSE]

\* (mutant) every payload is stringified
Serialize_always(data) ==
  <<"json", IF data.type = "string" THEN data.text ELSE data.value>>

\* typeof data === 'string' ? data : JSON.stringify(data): the text itself, or the
\* JSON text of the value
Serialize(data) ==
  IF data.type = "string" THEN <<"text", data.text>> ELSE <<"json", data.value>>

\* (mutant) the oldest entry is not evicted
Buffered_noShift(history, data, max) == Append(history, data)

\* lastMessages.push(data); if (length > maxMessages) lastMessages.shift()
Buffered(history, data, max) ==
  LET pushed == Append(history, data)
  IN IF Len(pushed) > max THEN Tail(pushed) ELSE pushed

\* (mutant) only an open connection is reused
ConnectReuses_openOnly == \E s \in connections : readyState[s] = "OPEN"

\* connect(url): whether the registered instance is returned as it is
ConnectReuses == \E s \in connections : Live(s)

\* connect(url): the instance it returns
ConnectReturns ==
  IF ConnectReuses THEN CHOOSE s \in connections : Live(s) ELSE Len(readyState) + 1

\* connect(url): the sockets, instances and registry after it
AfterConnect ==
  IF ConnectReuses
    THEN [readyState |-> readyState, instances |-> instances, connections |-> connections]
    ELSE [readyState |-> Append(readyState, "CONNECTING"),
          instances |-> Append(instances, NewInstance),
          connections |-> {Len(readyState) + 1}]

\* connect(url) can be modelled: a socket is left to create if one is needed
CanConnect == ConnectReuses \/ Len(readyState) < MaxSockets

WsInit ==
  /\ readyState = <<>>
  /\ instances = <<>>
  /\ connections = {}
  /\ reconnectTimers = 0
  /\ replayTimers = <<>>
  /\ handles = {}
  /\ calls = 0
  /\ frames = 0
  /\ arrived = <<>>
  /\ delivered = [cb \in Callbacks |-> <<>>]
  /\ statusSeen = [cb \in StatusCallbacks |-> <<>>]
  /\ disconnected = FALSE
  /\ unsubscribes = 0
  /\ fanout = <<>>
  /\ sent = <<>>
  /\ replayLog = <<>>
  /\ reentry = Null

\* The per-socket histories after connect().
ArrivedAfterConnect == IF ConnectReuses THEN arrived ELSE Append(arrived, <<>>)
SentAfterConnect == IF ConnectReuses THEN sent ELSE Append(sent, <<>>)

\* wsManager.connect(url)
Connect ==
  /\ calls < MaxCalls
  /\ CanConnect
  /\ calls' = calls + 1
  /\ readyState' = AfterConnect.readyState
  /\ instances' = AfterConnect.instances
  /\ connections' = AfterConnect.connections
  /\ arrived' = ArrivedAfterConnect
  /\ sent' = SentAfterConnect
  /\ UNCHANGED <<reconnectTimers, replayTimers, handles, frames, delivered, statusSeen,
                 replayLog>>
  /\ disconnected' = FALSE
  /\ UNCHANGED <<unsubscribes, fanout>>
  /\ UNCHANGED notWsVars

\* wsManager.subscribe(url, callback, replayLast)
Subscribe(cb, replayLast) ==
  /\ calls < MaxCalls
  /\ CanConnect
  /\ calls' = calls + 1
  /\ LET i == ConnectReturns
         history == AfterConnect.instances[i].lastMessages
     IN /\ instances' = [AfterConnect.instances EXCEPT ![i].subscribers = SetAdd(@, cb)]
        /\ replayTimers' =
             IF replayLast /\ Len(history) > 0
               THEN Append(replayTimers,
                           [instance |-> i, callback |-> cb,
                            \* what the history held and what has been delivered
                            \* live to the callback since, when the call was made
                            history |-> history, live |-> <<>>])
               ELSE replayTimers
        /\ handles' = handles \cup {<<"data", i, cb>>}
  /\ readyState' = AfterConnect.readyState
  /\ connections' = AfterConnect.connections
  /\ arrived' = ArrivedAfterConnect
  /\ sent' = SentAfterConnect
  /\ UNCHANGED <<reconnectTimers, frames, delivered, statusSeen, replayLog>>
  /\ disconnected' = FALSE
  /\ UNCHANGED <<unsubscribes, fanout>>
  /\ UNCHANGED notWsVars

\* the function subscribe returned: instance.subscribers.delete(callback)
Unsubscribe(i, cb) ==
  /\ unsubscribes < MaxUnsubscribes
  /\ <<"data", i, cb>> \in handles
  /\ unsubscribes' = unsubscribes + 1
  /\ instances' = [instances EXCEPT ![i].subscribers = SetDelete(@, cb)]
  /\ UNCHANGED <<readyState, connections, reconnectTimers, replayTimers, handles, calls,
                 frames, arrived, delivered, statusSeen, sent, replayLog>>
  /\ UNCHANGED <<disconnected, fanout>>
  /\ UNCHANGED notWsVars

\* wsManager.subscribeToStatus(url, callback): the callback is called at once
SubscribeToStatus(cb) ==
  /\ calls < MaxCalls
  /\ CanConnect
  /\ calls' = calls + 1
  /\ LET i == ConnectReturns
     IN /\ instances' =
             [AfterConnect.instances EXCEPT ![i].statusSubscribers = SetAdd(@, cb)]
        /\ statusSeen' =
             [statusSeen EXCEPT ![cb] = Append(@, Status(AfterConnect.instances[i]))]
        /\ handles' = handles \cup {<<"status", i, cb>>}
  /\ readyState' = AfterConnect.readyState
  /\ connections' = AfterConnect.connections
  /\ arrived' = ArrivedAfterConnect
  /\ sent' = SentAfterConnect
  /\ UNCHANGED <<reconnectTimers, replayTimers, frames, delivered, replayLog>>
  /\ disconnected' = FALSE
  /\ UNCHANGED <<unsubscribes, fanout>>
  /\ UNCHANGED notWsVars

\* the function subscribeToStatus returned: instance.statusSubscribers.delete(callback)
UnsubscribeStatus(i, cb) ==
  /\ unsubscribes < MaxUnsubscribes
  /\ <<"status", i, cb>> \in handles
  /\ unsubscribes' = unsubscribes + 1
  /\ instances' = [instances EXCEPT ![i].statusSubscribers = SetDelete(@, cb)]
  /\ UNCHANGED <<readyState, connections, reconnectTimers, replayTimers, handles, calls,
                 frames, arrived, delivered, statusSeen, sent, replayLog>>
  /\ UNCHANGED <<disconnected, fanout>>
  /\ UNCHANGED notWsVars

\* wsManager.send(url, data)
SendData(data) ==
  /\ calls < MaxCalls
  /\ calls' = calls + 1
  /\ sent' = IF \E s \in connections : readyState[s] = "OPEN"
               THEN [s \in DOMAIN sent |->
                       IF s \in connections THEN Append(sent[s], Serialize(data))
                       ELSE sent[s]]
               ELSE sent
  /\ UNCHANGED <<readyState, instances, connections, reconnectTimers, replayTimers,
                 handles, frames, arrived, delivered, statusSeen, replayLog>>
  /\ UNCHANGED <<disconnected, unsubscribes, fanout>>
  /\ UNCHANGED notWsVars

\* wsManager.disconnect(url): ws.close(1000, ...) starts the closing handshake of a
\* socket that is connecting or open, and the entry is removed
Disconnect ==
  /\ calls < MaxCalls
  /\ calls' = calls + 1
  /\ readyState' = [s \in DOMAIN readyState |->
                      IF s \in connections /\ Live(s) THEN "CLOSING" ELSE readyState[s]]
  /\ connections' = {}
  /\ UNCHANGED <<instances, reconnectTimers, replayTimers, handles, frames, arrived,
                 delivered, statusSeen, sent, replayLog>>
  /\ disconnected' = TRUE
  /\ UNCHANGED <<unsubscribes, fanout>>
  /\ UNCHANGED notWsVars

\* ws.onopen
OnOpen(inst) == [inst EXCEPT !.isConnected = TRUE, !.isConnecting = FALSE, !.error = Null]

\* ws.onerror
OnError(inst) == [inst EXCEPT !.error = ConnectionError, !.isConnecting = FALSE]

\* ws.onclose, the fields it sets
OnClose(inst) == [inst EXCEPT !.isConnected = FALSE, !.isConnecting = FALSE]

\* The socket s has been open: its onopen ran and its onclose has not.
Established(s) == instances[s].isConnected

\* open event of socket s
SocketOpen(s) ==
  /\ readyState[s] = "CONNECTING"
  /\ readyState' = [readyState EXCEPT ![s] = "OPEN"]
  /\ instances' = [instances EXCEPT ![s] = OnOpen(@)]
  /\ statusSeen' = notifyStatusSubscribers(OnOpen(instances[s]), statusSeen)
  /\ UNCHANGED <<connections, reconnectTimers, replayTimers, handles, calls, frames,
                 arrived, delivered, sent, replayLog>>
  /\ UNCHANGED <<disconnected, unsubscribes, fanout>>
  /\ UNCHANGED notWsVars

\* (mutant) a frame that does not parse is recorded as a connection error
CatchParseError_setsError(inst) == OnError(inst)

\* catch (err) { console.error(...) } of ws.onmessage: the instance after it
CatchParseError(inst) == inst

\* instance.subscribers.forEach((callback) => callback(data)) inside the try block:
\* the callbacks invoked, in order, when those in throwing throw on this message. The
\* exception of a callback leaves forEach and is caught by the handler's catch.
RECURSIVE Invoked(_, _)
Invoked(subscribers, throwing) ==
  IF subscribers = <<>> THEN <<>>
  ELSE IF Head(subscribers) \in throwing THEN <<Head(subscribers)>>
  ELSE <<Head(subscribers)>> \o Invoked(Tail(subscribers), throwing)

\* message event of socket s: ws.onmessage. The run receives at most limit frames.
SocketMessage(s, valid, throwing, limit) ==
  /\ readyState[s] = "OPEN"
  /\ frames < limit
  /\ frames' = frames + 1
  /\ LET parsed == JSONparse([text |-> frames + 1, valid |-> valid])
         inst == instances[s]
         invoked == Invoked(inst.subscribers, throwing)
     IN IF parsed.ok
          THEN /\ instances' =
                    [instances EXCEPT ![s].lastMessages =
                        Buffered(@, parsed.data, inst.maxMessages)]
               /\ arrived' = [arrived EXCEPT ![s] = Append(@, parsed.data)]
               /\ fanout' = invoked
               /\ delivered' =
                    [cb \in Callbacks |->
                       IF cb \in Range(invoked)
                         THEN Append(delivered[cb],
                                     [msg |-> parsed.data, via |-> "live", instance |-> s])
                         ELSE delivered[cb]]
               /\ replayTimers' =
                    [t \in DOMAIN replayTimers |->
                       IF replayTimers[t].instance = s
                            /\ replayTimers[t].callback \in Range(invoked)
                         THEN [replayTimers[t] EXCEPT !.live = Append(@, parsed.data)]
                         ELSE replayTimers[t]]
          ELSE /\ fanout' = <<>>
               /\ instances' = [instances EXCEPT ![s] = CatchParseError(@)]
               /\ UNCHANGED <<arrived, delivered, replayTimers>>
  /\ UNCHANGED <<readyState, connections, reconnectTimers, handles, calls, statusSeen,
                 sent, replayLog>>
  /\ UNCHANGED <<disconnected, unsubscribes>>
  /\ UNCHANGED notWsVars

\* the server starts the closing handshake of the open socket s
ServerClosing(s) ==
  /\ readyState[s] = "OPEN"
  /\ readyState' = [readyState EXCEPT ![s] = "CLOSING"]
  /\ UNCHANGED <<instances, connections, reconnectTimers, replayTimers, handles, calls,
                 frames, arrived, delivered, statusSeen, sent, replayLog>>
  /\ UNCHANGED <<disconnected, unsubscribes, fanout>>
  /\ UNCHANGED notWsVars

\* (mutant) a reconnect is scheduled after every close
ReconnectScheduled_always(wasClean, timers) == timers + 1

\* if (!event.wasClean) setTimeout(() => this.connect(url), 2000): the pending timers
ReconnectScheduled(wasClean, timers) == IF wasClean THEN timers ELSE timers + 1

\* close event of socket s: ws.onclose, after ws.onerror when the connection failed
SocketClose(s, wasClean, failed) ==
  /\ readyState[s] \in {"CONNECTING", "OPEN", "CLOSING"}
  /\ readyState' = [readyState EXCEPT ![s] = "CLOSED"]
  /\ LET errored == IF failed THEN OnError(instances[s]) ELSE instances[s]
         seenError == IF failed THEN notifyStatusSubscribers(errored, statusSeen)
                      ELSE statusSeen
         closed == OnClose(errored)
     IN /\ instances' = [instances EXCEPT ![s] = closed]
        /\ statusSeen' = notifyStatusSubscribers(closed, seenError)
  \* this.connections.delete(url)
  /\ connections' = {}
  /\ reconnectTimers' = ReconnectScheduled(wasClean, reconnectTimers)
  /\ UNCHANGED <<replayTimers, handles, calls, frames, arrived, delivered, sent, replayLog>>
  /\ UNCHANGED <<disconnected, unsubscribes, fanout>>
  /\ UNCHANGED notWsVars

\* the closing handshake of an established connection completes
SocketCloseClean(s) == Established(s) /\ SocketClose(s, TRUE, FALSE)

\* the connection is lost without a closing handshake
SocketCloseUnclean(s) == SocketClose(s, FALSE, FALSE)

\* the connection fails: error event, then close event
SocketFail(s) == SocketClose(s, FALSE, TRUE)

\* the reconnect timer fires: this.connect(url)
ReconnectTimerFires ==
  /\ reconnectTimers > 0
  /\ CanConnect
  /\ reconnectTimers' = reconnectTimers - 1
  /\ readyState' = AfterConnect.readyState
  /\ instances' = AfterConnect.instances
  /\ connections' = AfterConnect.connections
  /\ arrived' = ArrivedAfterConnect
  /\ sent' = SentAfterConnect
  /\ UNCHANGED <<replayTimers, handles, calls, frames, delivered, statusSeen, replayLog>>
  /\ UNCHANGED <<disconnected, unsubscribes, fanout>>
  /\ UNCHANGED notWsVars

\* the oldest replay timer fires: instance.lastMessages.forEach((msg) => callback(msg))
ReplayTimerFires ==
  /\ replayTimers # <<>>
  /\ LET t == Head(replayTimers)
         msgs == instances[t.instance].lastMessages
     IN /\ delivered' =
             [delivered EXCEPT ![t.callback] =
                @ \o [k \in DOMAIN msgs |->
                        [msg |-> msgs[k], via |-> "replay", instance |-> t.instance]]]
        /\ replayLog' = Append(replayLog, [callback |-> t.callback, instance |-> t.instance,
                                           history |-> t.history, live |-> t.live,
                                           replayed |-> msgs])
  /\ replayTimers' = Tail(replayTimers)
  /\ UNCHANGED <<readyState, instances, connections, reconnectTimers, handles, calls,
                 frames, arrived, statusSeen, sent>>
  /\ UNCHANGED <<disconnected, unsubscribes, fanout>>
  /\ UNCHANGED notWsVars

Payloads == {[type |-> "string", text |-> "ping"], [type |-> "object", value |-> "ping"]}

WsNext ==
  \/ Connect
  \/ \E cb \in Callbacks, replayLast \in BOOLEAN : Subscribe(cb, replayLast)
  \/ \E i \in Sockets, cb \in Callbacks : Unsubscribe(i, cb)
  \/ \E cb \in StatusCallbacks : SubscribeToStatus(cb)
  \/ \E i \in Sockets, cb \in StatusCallbacks : UnsubscribeStatus(i, cb)
  \/ \E data \in Payloads : SendData(data)
  \/ Disconnect
  \/ \E s \in Sockets : SocketOpen(s)
  \/ \E s \in Sockets, valid \in BOOLEAN, throwing \in SUBSET Callbacks :
       SocketMessage(s, valid, throwing, MaxFrames)
  \/ \E s \in Sockets : ServerClosing(s)
  \/ \E s \in Sockets : SocketCloseClean(s)
  \/ \E s \in Sockets : SocketCloseUnclean(s)
  \/ \E s \in Sockets : SocketFail(s)
  \/ ReconnectTimerFires
  \/ ReplayTimerFires

\* (mutant) the iteration ends at the first callback that unsubscribes one
RECURSIVE forEach_endsOnDelete(_, _, _)
forEach_endsOnDelete(pending, deleted, unsub) ==
  IF pending = <<>> THEN <<>>
  ELSE IF unsub[Head(pending)] # {} THEN <<Head(pending)>>
  ELSE <<Head(pending)>> \o forEach_endsOnDelete(Tail(pending), deleted, unsub)

\* instance.subscribers.forEach((callback) => callback(data)) when a callback cb calls
\* the unsubscribe functions of the callbacks unsub[cb]: Set.prototype.forEach visits
\* the entries in insertion order and passes over an entry deleted before its turn.
\* The callbacks invoked, in order; pending are the entries not yet visited.
RECURSIVE forEach(_, _, _)
forEach(pending, deleted, unsub) ==
  IF pending = <<>> THEN <<>>
  ELSE IF Head(pending) \in deleted THEN forEach(Tail(pending), deleted, unsub)
  ELSE <<Head(pending)>>
         \o forEach(Tail(pending), deleted \cup unsub[Head(pending)], unsub)

\* The subscriber set after the callbacks in deleted were deleted from it.
RECURSIVE DeleteEach(_, _)
DeleteEach(subscribers, deleted) ==
  IF deleted = {} THEN subscribers
  ELSE LET cb == CHOOSE c \in deleted : TRUE
       IN DeleteEach(SetDelete(subscribers, cb), deleted \ {cb})

\* The unsubscribe functions that exist for the subscriber set of connection s.
Unsubscribable(s) == {cb \in Callbacks : <<"data", s, cb>> \in handles}

\* message event of socket s, with a parseable frame, when the callback cb calls the
\* unsubscribe functions of unsub[cb] from inside its invocation
ReentrantMessage(s, unsub) ==
  /\ readyState[s] = "OPEN"
  /\ frames < MaxFrames
  /\ \A cb \in Callbacks : unsub[cb] \subseteq Unsubscribable(s)
  /\ frames' = frames + 1
  /\ LET parsed == JSONparse([text |-> frames + 1, valid |-> TRUE])
         inst == instances[s]
         invoked == forEach(inst.subscribers, {}, unsub)
         deleted == UNION {unsub[cb] : cb \in Range(invoked)}
     IN /\ instances' =
             [instances EXCEPT ![s].lastMessages = Buffered(@, parsed.data, inst.maxMessages),
                               ![s].subscribers = DeleteEach(@, deleted)]
        /\ arrived' = [arrived EXCEPT ![s] = Append(@, parsed.data)]
        /\ fanout' = invoked
        /\ delivered' =
             [cb \in Callbacks |->
                IF cb \in Range(invoked)
                  THEN Append(delivered[cb],
                              [msg |-> parsed.data, via |-> "live", instance |-> s])
                  ELSE delivered[cb]]
        /\ replayTimers' =
             [t \in DOMAIN replayTimers |->
                IF replayTimers[t].instance = s /\ replayTimers[t].callback \in Range(invoked)
                  THEN [replayTimers[t] EXCEPT !.live = Append(@, parsed.data)]
                  ELSE replayTimers[t]]
        /\ reentry' = [instance |-> s, before |-> inst.subscribers, unsub |-> unsub]
  /\ UNCHANGED <<readyState, connections, reconnectTimers, handles, calls, statusSeen,
                 sent, replayLog>>
  /\ UNCHANGED <<disconnected, unsubscribes>>
  /\ UNCHANGED notFanOutVars

\* Subscribers of a connection receiving messages and unsubscribing while they do.
FanOutNext ==
  \/ \E cb \in Callbacks, replayLast \in BOOLEAN : Subscribe(cb, replayLast)
  \/ \E s \in Sockets : SocketOpen(s)
  \/ \E s \in Sockets, unsub \in [Callbacks -> SUBSET Callbacks] : ReentrantMessage(s, unsub)
  \/ ReplayTimerFires

RECURSIVE TotalLen(_)
TotalLen(seqs) == IF seqs = <<>> THEN 0 ELSE Len(Head(seqs)) + TotalLen(Tail(seqs))

\* The frames received so far that did not parse.
BadFrames == frames - TotalLen(arrived)

\* A long run of frames on a connection, MaxBadFrames of them not parseable.
HistoryMessage(s, valid) ==
  /\ valid \/ BadFrames < MaxBadFrames
  /\ SocketMessage(s, valid, {}, HistoryFrames)

\* One connection receiving a long run of frames.
HistoryNext ==
  \/ Connect
  \/ \E s \in Sockets : SocketOpen(s)
  \/ \E s \in Sockets, valid \in BOOLEAN : HistoryMessage(s, valid)

\* ------------------------------------------------------ utils/retry.ts
\* Numbers are the finite values 0 .. MaxValue, Infinity and NaN.
Infinity == MaxValue + 1
NaN == MaxValue + 2

\* undefined
Undefined == <<>>

\* a * b: overflow gives Infinity, 0 * Infinity is NaN, NaN is contagious
Times(a, b) ==
  IF a = NaN \/ b = NaN THEN NaN
  ELSE IF a = Infinity \/ b = Infinity THEN (IF a = 0 \/ b = 0 THEN NaN ELSE Infinity)
  ELSE IF a = 0 \/ b = 0 THEN 0
  ELSE IF a > MaxValue \div b THEN Infinity
  ELSE a * b

\* Math.pow(base, exponent) for an exponent 0, 1, 2, ...
RECURSIVE MathPow(_, _)
MathPow(base, exponent) ==
  IF exponent = 0 THEN 1 ELSE Times(base, MathPow(base, exponent - 1))

\* Math.min(a, b): NaN when either argument is NaN
MathMin(a, b) == IF a = NaN \/ b = NaN THEN NaN ELSE IF a <= b THEN a ELSE b

\* a <= b on numbers: false when either is NaN
Lte(a, b) == a # NaN /\ b # NaN /\ a <= b

DEFAULT_RETRY_CONFIG ==
  [maxAttempts |-> 3, initialDelay |-> 1000, maxDelay |-> 30000, backoffMultiplier |-> 2]

getRetryDelay(n, cfg) ==
  LET exponentialDelay == Times(cfg.initialDelay, MathPow(cfg.backoffMultiplier, n))
  IN MathMin(exponentialDelay, cfg.maxDelay)

\* (mutant) no attempt is ever left
shouldRetry_never(n, cfg) == FALSE

shouldRetry(n, cfg) == n < cfg.maxAttempts

\* (mutant) every error is retried
Accepts_all(supplied, retryable) == TRUE

\* !(shouldRetryError && !shouldRetryError(error)): the error is retried, retryable
\* being what the predicate returns for it
Accepts(supplied, retryable) == ~supplied \/ retryable

\* (mutant) the delay is computed for the attempt that comes next
DelayAfter_next(n, cfg) == getRetryDelay(n + 1, cfg)

\* const delay = getRetryDelay(attempt, config): the wait after the failed attempt n
DelayAfter(n, cfg) == getRetryDelay(n, cfg)

\* The configurations and predicates withRetry is called with.
RetryConfigs ==
  [maxAttempts : 0..MaxAttempts, initialDelay : {0, 1, 1000}, maxDelay : {500, 30000},
   backoffMultiplier : {1, 2, 3}]

\* withRetry has not been called
RetryIdle(cfg, supplied) ==
  /\ retryConfig = cfg
  /\ predicate = supplied
  /\ attempt = 0
  /\ retryPc = "idle"
  /\ lastError = Undefined
  /\ settled = Undefined
  /\ invocations = 0
  /\ thrown = <<>>
  /\ waited = <<>>
  /\ schedule = <<>>

RetryInit == \E cfg \in RetryConfigs, supplied \in BOOLEAN : RetryIdle(cfg, supplied)

\* for (...; attempt < config.maxAttempts; ...) entered with attempt = n, up to the
\* await of operation(), or throw lastError after the loop
LoopFrom(n) ==
  /\ attempt' = n
  /\ IF n < retryConfig.maxAttempts
       THEN /\ retryPc' = "operation"
            /\ invocations' = invocations + 1
            /\ UNCHANGED settled
       ELSE /\ retryPc' = "rejected"
            /\ settled' = lastError
            /\ UNCHANGED invocations

\* withRetry(operation, config, shouldRetryError) is called
WithRetry ==
  /\ retryPc = "idle"
  /\ LoopFrom(0)
  /\ UNCHANGED <<retryConfig, predicate, lastError, thrown, waited, schedule>>
  /\ UNCHANGED notRetryVars

\* the promise of operation() resolves: return result
OperationResolves ==
  /\ retryPc = "operation"
  /\ retryPc' = "resolved"
  /\ settled' = <<"result", invocations>>
  /\ UNCHANGED <<retryConfig, predicate, attempt, lastError, invocations, thrown, waited,
                 schedule>>
  /\ UNCHANGED notRetryVars

\* the promise of operation() rejects: the catch block, up to the await of the delay
OperationRejects(retryable) ==
  /\ retryPc = "operation"
  /\ predicate \/ retryable
  /\ LET err == <<"error", invocations>>
         hasMoreAttempts == shouldRetry(attempt + 1, retryConfig)
     IN /\ lastError' = err
        /\ thrown' = Append(thrown, [error |-> err, retryable |-> retryable])
        /\ IF ~Accepts(predicate, retryable) \/ ~hasMoreAttempts
             THEN /\ retryPc' = "rejected"
                  /\ settled' = err
                  /\ UNCHANGED waited
             ELSE /\ retryPc' = "sleep"
                  /\ waited' = Append(waited, DelayAfter(attempt, retryConfig))
                  /\ UNCHANGED settled
  /\ UNCHANGED <<retryConfig, predicate, attempt, invocations, schedule>>
  /\ UNCHANGED notRetryVars

\* the timer of the delay fires: attempt++ and the loop goes on
DelayElapses ==
  /\ retryPc = "sleep"
  /\ LoopFrom(attempt + 1)
  /\ UNCHANGED <<retryConfig, predicate, lastError, thrown, waited, schedule>>
  /\ UNCHANGED notRetryVars

\* getRetryDelay(n, config) is computed for the next attempt number n
ComputeDelay ==
  /\ Len(schedule) < MaxBackoffAttempts
  /\ schedule' = Append(schedule, getRetryDelay(Len(schedule), retryConfig))
  /\ UNCHANGED <<retryConfig, predicate, attempt, retryPc, lastError, settled,
                 invocations, thrown, waited>>
  /\ UNCHANGED notRetryVars

RetryNext ==
  \/ WithRetry
  \/ OperationResolves
  \/ \E retryable \in BOOLEAN : OperationRejects(retryable)
  \/ DelayElapses
  \/ ComputeDelay

\* ------------------------------------------------------ auth-service
\* JavaScript values, as JSON carries them.
JsUndefined == [type |-> "undefined"]
JsNull == [type |-> "null"]
JsNumber(n) == [type |-> "number", value |-> n]
JsString(t) == [type |-> "string", text |-> t]
JsObject(fields) == [type |-> "object", fields |-> fields]

\* !v
Falsy(v) ==
  \/ v.type \in {"undefined", "null"}
  \/ v.type = "number" /\ v.value = 0
  \/ v.type = "string" /\ v.text = ""

\* v.key: undefined on a value that is no object or has no such property
Get(v, key) ==
  IF v.type = "object" /\ key \in DOMAIN v.fields THEN v.fields[key] ELSE JsUndefined

\* The number a value converts to in a comparison. The strings of the model are not
\* numeric: they and objects convert to NaN, null to 0.
ToNumber(v) ==
  IF v.type = "number" THEN [nan |-> FALSE, value |-> v.value]
  ELSE IF v.type = "null" THEN [nan |-> FALSE, value |-> 0]
  ELSE [nan |-> TRUE]

\* v <= n for a number n: false when v converts to NaN
JsLte(v, n) == ~ToNumber(v).nan /\ ToNumber(v).value <= n

\* v > n for a number n: false when v converts to NaN
JsGt(v, n) == ~ToNumber(v).nan /\ ToNumber(v).value > n

\* JSON.stringify(value), and a text that is no JSON
JSONstringify(value) == <<"json", value>>
PlainText(t) == <<"text", t>>

\* JSON.parse(str): throws on a text that is no JSON
ParseJson(str) ==
  IF str[1] = "json" THEN [ok |-> TRUE, value |-> str[2]] ELSE [ok |-> FALSE]

\* base64UrlEncode(str), and a segment that is no base64url of a text
base64UrlEncode(str) == <<"b64url", str>>
NotBase64(t) == <<"invalid", PlainText(t)>>

\* base64UrlDecode(segment): atob / decodeURIComponent throw on an invalid segment
base64UrlDecode(segment) ==
  IF segment[1] = "b64url" THEN [ok |-> TRUE, str |-> segment[2]] ELSE [ok |-> FALSE]

\* A token is the sequence of its dot-separated segments, token.split('.').
\* decodeToken(token): the payload, or null
decodeToken(token) ==
  IF Len(token) # 3 THEN JsNull
  ELSE LET decoded == base64UrlDecode(token[2])
       IN IF ~decoded.ok THEN JsNull
          ELSE LET parsed == ParseJson(decoded.str)
               IN IF ~parsed.ok THEN JsNull ELSE parsed.value

\* isTokenExpired(token) at the time currentTime
isTokenExpired(token, currentTime) ==
  LET payload == decodeToken(token)
  IN IF Falsy(payload) \/ Falsy(Get(payload, "exp")) THEN TRUE
     ELSE JsLte(Get(payload, "exp"), currentTime + 30)

\* generateMockToken(username, expiresIn) at the time currentTime
generateMockToken(username, expiresIn, currentTime) ==
  LET header == JsObject([alg |-> JsString("HS256"), typ |-> JsString("JWT")])
      payload == JsObject([sub |-> JsString(username), iat |-> JsNumber(currentTime),
                           exp |-> JsNumber(currentTime + expiresIn)])
  IN <<base64UrlEncode(JSONstringify(header)), base64UrlEncode(JSONstringify(payload)),
       NotBase64("mock_signature")>>

\* storeTokens(tokens, rememberMe): the pair of storages after it
storeTokens(tokens, rememberMe) ==
  LET written == [ACCESS_TOKEN |-> tokens.accessToken,
                  REFRESH_TOKEN |-> tokens.refreshToken, EXPIRES_IN |-> "3600"]
  IN IF rememberMe THEN [local |-> written, session |-> sessionStorage]
     ELSE [local |-> localStorage, session |-> written]

Usernames == {"alice", "bob"}

\* The first reading of the clock, and the seconds it advances by.
Epoch == 1000000
TickSizes == {1, 3600, 86370}

\* isAuthenticated(), called at the time currentTime
isAuthenticated(currentTime) ==
  IF getAccessToken = Null THEN FALSE
  ELSE IF isTokenExpired(getAccessToken, currentTime) THEN FALSE
  ELSE TRUE

AuthInit ==
  /\ now = Epoch
  /\ pendingLogin = Null
  /\ pendingRefresh = Null
  /\ authReturn = Null
  /\ probe = Null
  /\ authCalls = 0
  /\ ticks = 0

\* login(credentials) is called: it waits 500 ms
LoginCalled(username, rememberMe) ==
  /\ authCalls < MaxAuthCalls
  /\ pendingLogin = Null
  /\ authCalls' = authCalls + 1
  /\ pendingLogin' = [username |-> username, rememberMe |-> rememberMe]
  /\ UNCHANGED <<localStorage, sessionStorage, now, pendingRefresh, authReturn, probe, ticks>>
  /\ UNCHANGED notAuthVars

\* login(credentials) after its delay: the tokens are generated, stored and returned
LoginCompletes ==
  /\ pendingLogin # Null
  /\ LET mockTokens == [accessToken |-> generateMockToken(pendingLogin.username, 3600, now),
                        refreshToken |-> generateMockToken(pendingLogin.username, 86400, now),
                        expiresIn |-> 3600]
         store == storeTokens(mockTokens, pendingLogin.rememberMe)
     IN /\ localStorage' = store.local
        /\ sessionStorage' = store.session
        /\ authReturn' = [op |-> "login", rememberMe |-> pendingLogin.rememberMe,
                          value |-> mockTokens]
  /\ pendingLogin' = Null
  /\ UNCHANGED <<now, pendingRefresh, probe, authCalls, ticks>>
  /\ UNCHANGED notAuthVars

\* logout()
Logout ==
  /\ authCalls < MaxAuthCalls
  /\ authCalls' = authCalls + 1
  /\ localStorage' = LoggedOut.local
  /\ sessionStorage' = LoggedOut.session
  /\ authReturn' = [op |-> "logout"]
  /\ UNCHANGED <<now, pendingLogin, pendingRefresh, probe, ticks>>
  /\ UNCHANGED notAuthVars

\* refreshAccessToken() is called: it throws, or waits 300 ms
RefreshCalled ==
  /\ authCalls < MaxAuthCalls
  /\ pendingRefresh = Null
  /\ authCalls' = authCalls + 1
  /\ LET refreshToken == getRefreshToken
     IN IF refreshToken = Null
          THEN /\ authReturn' = [op |-> "refresh", threw |-> "No refresh token available",
                                 before |-> <<localStorage, sessionStorage>>]
               /\ UNCHANGED pendingRefresh
          ELSE IF isTokenExpired(refreshToken, now)
            THEN /\ authReturn' = [op |-> "refresh", threw |-> "Refresh token has expired",
                                   before |-> <<localStorage, sessionStorage>>]
                 /\ UNCHANGED pendingRefresh
            ELSE /\ pendingRefresh' = refreshToken
                 /\ UNCHANGED authReturn
  /\ UNCHANGED <<localStorage, sessionStorage, now, pendingLogin, probe, ticks>>
  /\ UNCHANGED notAuthVars

\* refreshAccessToken() after its delay: a new access token is generated and stored
RefreshCompletes ==
  /\ pendingRefresh # Null
  /\ LET payload == decodeToken(pendingRefresh)
         sub == Get(payload, "sub")
         username == IF Falsy(sub) THEN "user" ELSE sub.text
         newAccessToken == generateMockToken(username, 3600, now)
         store == StoreRefreshed(newAccessToken)
     IN /\ localStorage' = store.local
        /\ sessionStorage' = store.session
        /\ authReturn' = [op |-> "refresh", value |-> newAccessToken, scope |-> getStorage,
                          before |-> <<localStorage, sessionStorage>>]
  /\ pendingRefresh' = Null
  /\ UNCHANGED <<now, pendingLogin, probe, authCalls, ticks>>
  /\ UNCHANGED notAuthVars

\* time passes
Tick(seconds) ==
  /\ ticks < MaxTicks
  /\ ticks' = ticks + 1
  /\ now' = now + seconds
  /\ UNCHANGED <<localStorage, sessionStorage, pendingLogin, pendingRefresh, authReturn,
                 probe, authCalls>>
  /\ UNCHANGED notAuthVars

\* The token strings isTokenExpired is called with at the time t: around the expiry
\* threshold, without the claim, and malformed in each way.
Segment(value) == base64UrlEncode(JSONstringify(value))
Framed(payloadSegment) == <<Segment(JsObject([alg |-> JsString("HS256")])), payloadSegment,
                            NotBase64("signature")>>
ProbeTokens(t) ==
  {Framed(Segment(JsObject([exp |-> e]))) :
     e \in {JsNumber(t + 31), JsNumber(t + 30), JsNumber(t - 1), JsNumber(0), JsNull,
            JsString("never")}}
  \cup {Framed(Segment(v)) : v \in {JsObject([sub |-> JsString("alice")]), JsNull,
                                   JsNumber(5), JsString("payload")}}
  \cup {Framed(NotBase64("%%%")), Framed(base64UrlEncode(PlainText("not json")))}
  \cup {<<NotBase64("")>>,
         <<Segment(JsObject([alg |-> JsString("HS256")])),
           Segment(JsObject([exp |-> JsNumber(t + 3600)]))>>,
         Framed(Segment(JsObject([exp |-> JsNumber(t + 3600)]))) \o <<NotBase64("extra")>>}

\* isTokenExpired(token)
IsTokenExpired(token) ==
  /\ probe' = [token |-> token, now |-> now, result |-> isTokenExpired(token, now)]
  /\ probe' # probe
  /\ UNCHANGED <<localStorage, sessionStorage, now, pendingLogin, pendingRefresh,
                 authReturn, authCalls, ticks>>
  /\ UNCHANGED notAuthVars

AuthNext ==
  \/ \E username \in Usernames, rememberMe \in BOOLEAN : LoginCalled(username, rememberMe)
  \/ LoginCompletes
  \/ Logout
  \/ RefreshCalled
  \/ RefreshCompletes
  \/ \E seconds \in TickSizes : Tick(seconds)

\* isTokenExpired applied to token strings as time passes
TokenNext ==
  \/ \E seconds \in TickSizes : Tick(seconds)
  \/ \E token \in ProbeTokens(now) : IsTokenExpired(token)

\* ------------------------------------------------ utils/error-handler.ts
\* ErrorCategory
ErrorCategory ==
  [NETWORK |-> "NETWORK_ERROR", API |-> "API_ERROR", WEBSOCKET |-> "WEBSOCKET_ERROR",
   VALIDATION |-> "VALIDATION_ERROR", AUTHENTICATION |-> "AUTH_ERROR",
   UNKNOWN |-> "UNKNOWN_ERROR"]

Categories == {ErrorCategory[k] : k \in DOMAIN ErrorCategory}

\* An error code is the sequence of its words: 'RATE_LIMIT' is <<"RATE", "LIMIT">>.
\* The codes the handlers of error-handler.ts produce.
Codes ==
  {<<"NETWORK", "ERROR">>, <<"AUTH", "ERROR">>, <<"FORBIDDEN">>, <<"NOT", "FOUND">>,
   <<"RATE", "LIMIT">>, <<"CLIENT", "ERROR">>, <<"SERVER", "ERROR">>,
   <<"UNKNOWN", "ERROR">>, <<"TIMEOUT", "ERROR">>, <<"WEBSOCKET", "TIMEOUT">>,
   <<"WEBSOCKET", "DISCONNECTED">>}

\* code.includes(word), for a whole word of the code
Includes(code, word) == \E i \in DOMAIN code : code[i] = word

\* The status codes an error response carries.
ResponseStatuses == {200, 302, 399, 400, 401, 403, 404, 408, 429, 499, 500, 502, 503, 504, 599}

\* error.statusCode && ...: the AppError carries a status code that is not 0
HasStatus(appError) == "statusCode" \in DOMAIN appError /\ appError.statusCode # 0

\* (mutant) a code containing TIMEOUT does not count
isRetryableError_noTimeout(appError) ==
  \/ appError.category = ErrorCategory.NETWORK
  \/ appError.category = ErrorCategory.WEBSOCKET
  \/ HasStatus(appError) /\ appError.statusCode >= 500

\* (mutant) every error carrying a status of 400 or more is retried
isRetryableError_anyFailure(appError) ==
  \/ appError.category = ErrorCategory.NETWORK
  \/ HasStatus(appError) /\ appError.statusCode >= 400

isRetryableError(appError) ==
  IF appError.category = ErrorCategory.NETWORK THEN TRUE
  ELSE IF appError.category = ErrorCategory.WEBSOCKET THEN TRUE
  ELSE IF HasStatus(appError) /\ appError.statusCode >= 500 THEN TRUE
  ELSE IF Includes(appError.code, "TIMEOUT") THEN TRUE
  ELSE IF appError.code = <<"RATE", "LIMIT">> THEN FALSE
  ELSE IF HasStatus(appError) /\ appError.statusCode >= 400 /\ appError.statusCode < 500
    THEN FALSE
  ELSE IF appError.category = ErrorCategory.AUTHENTICATION THEN FALSE
  ELSE IF appError.category = ErrorCategory.VALIDATION THEN FALSE
  ELSE FALSE

\* The AppErrors isRetryableError is applied to: with and without a status code.
AppErrors ==
  [category : Categories, code : Codes]
    \cup [category : Categories, code : Codes, statusCode : ResponseStatuses]

\* response.data and the retry-after header of an error response
ResponseDatas ==
  {[message |-> "", error |-> ""], [message |-> "Name is required", error |-> ""],
   [message |-> "", error |-> "Bad input"]}
RetryAfterHeaders == {[present |-> FALSE], [present |-> TRUE, value |-> "60"]}

\* The AxiosErrors handleApiError is applied to: without and with a response.
HttpFailures ==
  [message : {"Network Error"}]
    \cup [message : {"Request failed"},
          response : [status : ResponseStatuses, data : ResponseDatas,
                      retryAfter : RetryAfterHeaders]]

\* (mutant) 404 and 429 are not told apart from the other client errors
ClientError_generic(response) ==
  [message |-> <<"Invalid request. Please check your input.">>,
   code |-> <<"CLIENT", "ERROR">>, category |-> ErrorCategory.VALIDATION]

\* handleApiError: the block for 400 <= statusCode < 500
ClientError(response) ==
  LET message ==
        IF response.data.message # "" THEN <<response.data.message>>
        ELSE IF response.data.error # "" THEN <<response.data.error>>
        ELSE <<"Invalid request. Please check your input.">>
  IN IF response.status = 404
       THEN [message |-> <<"The requested resource was not found.">>,
             code |-> <<"NOT", "FOUND">>, category |-> ErrorCategory.API]
     ELSE IF response.status = 429
       THEN [message |->
               <<"Too many requests. Please try again">>
                 \o (IF response.retryAfter.present /\ response.retryAfter.value # ""
                       THEN <<"in", response.retryAfter.value, "seconds">>
                       ELSE <<"later">>),
             code |-> <<"RATE", "LIMIT">>, category |-> ErrorCategory.API]
     ELSE [message |-> message, code |-> <<"CLIENT", "ERROR">>,
           category |-> ErrorCategory.VALIDATION]

\* The AppError with the status code of the response added.
WithStatus(appError, statusCode) ==
  [message |-> appError.message, code |-> appError.code, category |-> appError.category,
   statusCode |-> statusCode]

handleApiError(failure) ==
  IF "response" \notin DOMAIN failure
    THEN [message |-> <<"Unable to connect to the server. Please check your internet connection.">>,
          code |-> <<"NETWORK", "ERROR">>, category |-> ErrorCategory.NETWORK]
  ELSE LET response == failure.response
           statusCode == response.status
       IN WithStatus(
            IF statusCode = 401
              THEN [message |-> <<"Your session has expired. Please log in again.">>,
                    code |-> <<"AUTH", "ERROR">>, category |-> ErrorCategory.AUTHENTICATION]
            ELSE IF statusCode = 403
              THEN [message |-> <<"You don't have permission to perform this action.">>,
                    code |-> <<"FORBIDDEN">>, category |-> ErrorCategory.AUTHENTICATION]
            ELSE IF statusCode >= 400 /\ statusCode < 500 THEN ClientError(response)
            ELSE IF statusCode >= 500
              THEN [message |->
                      IF statusCode \in {502, 503, 504}
                        THEN <<"Service temporarily unavailable. Please try again in a moment.">>
                        ELSE <<"Something went wrong on our end. Please try again.">>,
                    code |-> <<"SERVER", "ERROR">>, category |-> ErrorCategory.API]
            ELSE [message |-> <<"An unexpected error occurred. Please try again.">>,
                  code |-> <<"UNKNOWN", "ERROR">>, category |-> ErrorCategory.UNKNOWN],
            statusCode)

ErrorInit ==
  /\ classified = Null
  /\ retryCheck = Null

\* handleApiError(error), and whether the caller may retry: isRetryableError of it
HandleApiError(failure) ==
  /\ classified = Null
  /\ classified' = [input |-> failure, output |-> handleApiError(failure),
                    retryable |-> isRetryableError(handleApiError(failure))]
  /\ UNCHANGED retryCheck
  /\ UNCHANGED notErrorVars

\* isRetryableError(error)
IsRetryableError(appError) ==
  /\ retryCheck = Null
  /\ retryCheck' = [input |-> appError, result |-> isRetryableError(appError)]
  /\ UNCHANGED classified
  /\ UNCHANGED notErrorVars

ErrorNext ==
  \/ \E failure \in HttpFailures : HandleApiError(failure)
  \/ \E appError \in AppErrors : IsRetryableError(appError)

\* ------------------------------------------------ hooks/use-raw-websocket.ts
\* The defaults of the options.
DefaultRawOptions ==
  [reconnection |-> TRUE, reconnectionAttempts |-> 5, reconnectionDelay |-> 1000,
   reconnectionDelayMax |-> 30000]

\* The options a consumer passes.
RawOptions ==
  [reconnection : BOOLEAN, reconnectionAttempts : 0..MaxReconnects,
   reconnectionDelay : {1000}, reconnectionDelayMax : {1500, 30000}]

\* (mutant) the delay does not grow
getReconnectDelay_flat ==
  MathMin(options.reconnectionDelay, options.reconnectionDelayMax)

getReconnectDelay ==
  MathMin(Times(options.reconnectionDelay, MathPow(2, reconnectAttemptsRef)),
          options.reconnectionDelayMax)

RawIdle(opts) ==
  /\ options = opts
  /\ rawSockets = <<>>
  /\ wsRef = 0
  /\ reconnectAttemptsRef = 0
  /\ reconnectTimeoutRef = 0
  /\ rawTimers = <<>>
  /\ isConnected = FALSE
  /\ isConnecting = FALSE
  /\ hookError = Null
  /\ reconnectsMade = 0
  /\ reconnectsSinceReset = 0
  /\ rawEvent = [type |-> "none"]

RawInit == \E opts \in RawOptions : RawIdle(opts)

\* wsRef.current?.readyState === WebSocket.OPEN
RefIsOpen == wsRef # 0 /\ rawSockets[wsRef] = "OPEN"

\* The body of connect(): nothing when the current socket is open, else a new
\* socket that becomes the current one.
ConnectBody ==
  IF RefIsOpen
    THEN UNCHANGED <<isConnecting, hookError, rawSockets, wsRef>>
    ELSE /\ Len(rawSockets) < MaxRawSockets
         /\ isConnecting' = TRUE
         /\ hookError' = Null
         /\ rawSockets' = Append(rawSockets, "CONNECTING")
         /\ wsRef' = Len(rawSockets) + 1

\* connect(), called by the consumer or by the mount effect
RawConnect ==
  /\ ConnectBody
  /\ UNCHANGED <<options, reconnectAttemptsRef, reconnectTimeoutRef, rawTimers, isConnected,
                 reconnectsMade, reconnectsSinceReset, rawEvent>>
  /\ UNCHANGED notRawVars

\* ws.onopen of socket s
RawOpen(s) ==
  /\ rawSockets[s] = "CONNECTING"
  /\ rawSockets' = [rawSockets EXCEPT ![s] = "OPEN"]
  /\ isConnected' = TRUE
  /\ isConnecting' = FALSE
  /\ hookError' = Null
  /\ reconnectAttemptsRef' = 0
  /\ reconnectsMade' = 0
  /\ reconnectsSinceReset' = 0
  /\ rawEvent' = [type |-> "open", socket |-> s, attempts |-> reconnectAttemptsRef']
  /\ UNCHANGED <<options, wsRef, reconnectTimeoutRef, rawTimers>>
  /\ UNCHANGED notRawVars

\* ws.onerror of socket s: the connection has failed, its close event follows
RawError(s) ==
  /\ rawSockets[s] \in {"CONNECTING", "OPEN"}
  /\ rawSockets' = [rawSockets EXCEPT ![s] = "FAILED"]
  /\ hookError' = <<"WebSocket connection error">>
  /\ isConnecting' = FALSE
  /\ UNCHANGED <<options, wsRef, reconnectAttemptsRef, reconnectTimeoutRef, rawTimers,
                 isConnected, reconnectsMade, reconnectsSinceReset, rawEvent>>
  /\ UNCHANGED notRawVars

\* The close events socket s can deliver: a connection that was never
\* established, or that failed, closes uncleanly.
CloseKinds(s) ==
  CASE rawSockets[s] \in {"OPEN", "CLOSING"} -> BOOLEAN
    [] rawSockets[s] \in {"CONNECTING", "FAILED", "ABORTED"} -> {FALSE}
    [] OTHER -> {}

\* ws.onclose of socket s
RawClose(s, wasClean) ==
  LET reconnects ==
        /\ options.reconnection
        /\ reconnectAttemptsRef < options.reconnectionAttempts
        /\ ~wasClean
      gaveUp == ~reconnects /\ reconnectAttemptsRef >= options.reconnectionAttempts
  IN /\ wasClean \in CloseKinds(s)
     /\ rawSockets' = [rawSockets EXCEPT ![s] = "CLOSED"]
     /\ isConnected' = FALSE
     /\ isConnecting' = FALSE
     /\ wsRef' = 0
     /\ IF reconnects
          THEN /\ rawTimers' = Append(rawTimers, [delay |-> getReconnectDelay, state |-> "pending"])
               /\ reconnectTimeoutRef' = Len(rawTimers) + 1
               /\ UNCHANGED hookError
          ELSE /\ UNCHANGED <<rawTimers, reconnectTimeoutRef>>
               /\ hookError' =
                    IF gaveUp
                      THEN <<"Failed to reconnect after", options.reconnectionAttempts, "attempts">>
                      ELSE hookError
     /\ rawEvent' = [type |-> "close", socket |-> s, wasClean |-> wasClean,
                     made |-> reconnectsMade, sinceReset |-> reconnectsSinceReset,
                     scheduled |-> reconnects,
                     delay |-> getReconnectDelay, setError |-> gaveUp,
                     error |-> hookError']
     /\ UNCHANGED <<options, reconnectAttemptsRef, reconnectsMade, reconnectsSinceReset>>
     /\ UNCHANGED notRawVars

\* The reconnect timer t fires: reconnectAttemptsRef.current++; connect()
RawTimerFires(t) ==
  /\ rawTimers[t].state = "pending"
  /\ rawTimers' = [rawTimers EXCEPT ![t].state = "fired"]
  /\ reconnectAttemptsRef' = reconnectAttemptsRef + 1
  /\ reconnectsMade' = reconnectsMade + 1
  /\ reconnectsSinceReset' = reconnectsSinceReset + 1
  /\ ConnectBody
  /\ UNCHANGED <<options, reconnectTimeoutRef, isConnected, rawEvent>>
  /\ UNCHANGED notRawVars

\* disconnect(): close(1000) starts the closing handshake of an open socket (CLOSING)
\* and fails a socket that is still connecting (ABORTED): its close event is unclean.
RawDisconnect ==
  /\ wsRef # 0 \/ reconnectTimeoutRef # 0 \/ reconnectAttemptsRef # 0
  /\ rawTimers' =
       IF reconnectTimeoutRef # 0 /\ rawTimers[reconnectTimeoutRef].state = "pending"
         THEN [rawTimers EXCEPT ![reconnectTimeoutRef].state = "cleared"]
         ELSE rawTimers
  /\ reconnectTimeoutRef' = 0
  /\ rawSockets' =
       IF wsRef = 0 THEN rawSockets
       ELSE [rawSockets EXCEPT ![wsRef] =
               CASE @ = "OPEN" -> "CLOSING"
                 [] @ = "CONNECTING" -> "ABORTED"
                 [] OTHER -> @]
  /\ wsRef' = 0
  /\ isConnected' = FALSE
  /\ isConnecting' = FALSE
  /\ reconnectAttemptsRef' = 0
  /\ reconnectsSinceReset' = 0
  /\ UNCHANGED <<options, hookError, reconnectsMade, rawEvent>>
  /\ UNCHANGED notRawVars

RawNext ==
  \/ RawConnect
  \/ \E s \in DOMAIN rawSockets : RawOpen(s)
  \/ \E s \in DOMAIN rawSockets : RawError(s)
  \/ \E s \in DOMAIN rawSockets, wasClean \in BOOLEAN : RawClose(s, wasClean)
  \/ \E t \in DOMAIN rawTimers : RawTimerFires(t)
  \/ RawDisconnect

\* A response, of any status, for the call of request r.
Respond(r) ==
  \/ ResponseOk(r)
  \/ \E status \in Statuses, expired \in BOOLEAN : ResponseError(r, status, expired)

Init ==
  /\ HttpInit /\ WsInit /\ RetryIdle(DEFAULT_RETRY_CONFIG, FALSE) /\ AuthInit /\ ErrorInit
  /\ RawIdle(DefaultRawOptions)

\* The HTTP pipeline.
Next == HttpNext

Spec == Init /\ [][Next]_vars

\* Every call in flight gets its response and every refreshAccessToken() promise
\* settles; nothing obliges the application to issue a call.
FairSpec ==
  /\ Spec
  /\ \A r \in Requests : /\ WF_vars(Respond(r))
                         /\ WF_vars(RefreshSucceeds(r))
                         /\ WF_vars(RefreshFails(r))

\* The WebSocket manager.
WsSpec == Init /\ [][WsNext]_vars

\* The WebSocket manager on a long run of frames.
WsHistorySpec == Init /\ [][HistoryNext]_vars

FanOutSpec == Init /\ [][FanOutNext]_vars

\* One call of withRetry, and the backoff schedule of its configuration.
RetrySpecInit ==
  HttpInit /\ WsInit /\ RetryInit /\ AuthInit /\ ErrorInit /\ RawIdle(DefaultRawOptions)

RetrySpec == RetrySpecInit /\ [][RetryNext]_vars

\* The auth-service on a token store that starts empty.
AuthSpecInit ==
  /\ PipelineInit
  /\ localStorage = EmptyStorage
  /\ sessionStorage = EmptyStorage
  /\ WsInit
  /\ RetryIdle(DEFAULT_RETRY_CONFIG, FALSE)
  /\ AuthInit
  /\ ErrorInit
  /\ RawIdle(DefaultRawOptions)

AuthSpec == AuthSpecInit /\ [][AuthNext]_vars

\* isTokenExpired on well-formed and malformed token strings.
TokenSpec == AuthSpecInit /\ [][TokenNext]_vars

\* The error classification applied to HTTP failures and to AppErrors.
ErrorSpec == Init /\ [][ErrorNext]_vars

\* The raw socket hook, under every choice of its options.
RawSpecInit ==
  /\ HttpInit /\ WsInit /\ RetryIdle(DEFAULT_RETRY_CONFIG, FALSE) /\ AuthInit /\ ErrorInit
  /\ RawInit

RawSpec == RawSpecInit /\ [][RawNext]_vars

\* ------------------------------------------------- claims, HTTP pipeline
\* How many entries of the log s belong to cycle e.
InCycle(s, e) == Cardinality({i \in DOMAIN s : s[i].cycle = e})

\* The requests whose 401 was handled during cycle e: the one(s) that called
\* refreshAccessToken and those pushed on the queue.
Members(e) ==
  {refreshLog[i].by : i \in {j \in DOMAIN refreshLog : refreshLog[j].cycle = e}}
    \cup {r \in Requests : \E i \in DOMAIN enq[r] : enq[r][i] = e}

RefreshOutstanding == \E r \in Requests : refreshCall[r] # "none"

\* The step is the handling of a 401 of the not-yet-retried request r.
Handles401(r) == phase[r] = "sent" /\ phase'[r] \in {"queued", "refreshing"}

\* C1: single-flight refresh. At most one call of refreshAccessToken is outstanding in
\* every reachable state, and a not-yet-retried request whose 401 is handled while a
\* refresh is in flight is pushed on the queue and calls refreshAccessToken not.
C1_SingleFlightRefresh ==
  /\ [](Cardinality({r \in Requests : refreshCall[r] # "none"}) <= 1)
  /\ [][\A r \in Requests :
          (Handles401(r) /\ RefreshOutstanding)
            => /\ phase'[r] = "queued"
               /\ requestQueue' = Append(requestQueue, [config |-> r, promise |-> r])
               /\ refreshLog' = refreshLog
               /\ refreshCall' = refreshCall]_vars

\* C1 witness: a refresh is in flight and a request waits behind it.
C1_Witness == RefreshOutstanding /\ Len(requestQueue) >= 1

\* C2: when two or more not-yet-retried requests had their 401 handled before the
\* refresh settled and the refresh resolved with token T, refreshAccessToken was called
\* once in that cycle and each of those requests was replayed once in it, with
\* Authorization = Bearer T, the replay settling the promise of its own caller.
C2_QueuedReplayedWithNewToken ==
  \A e \in DOMAIN cycles :
    (cycles[e].ok /\ Cardinality(Members(e)) >= 2)
      => /\ InCycle(refreshLog, e) = 1
         /\ \A r \in Members(e) :
              /\ InCycle(replays[r], e) = 1
              /\ \A i \in DOMAIN replays[r] :
                   replays[r][i].cycle = e
                     => /\ replays[r][i].Authorization = Bearer(cycles[e].token)
                        /\ replays[r][i].caller = r

\* C2 witness: a refresh that resolved with at least one request queued behind it.
C2_Witness ==
  \E e \in DOMAIN cycles :
    /\ cycles[e].ok
    /\ Cardinality(Members(e)) >= 2
    /\ \A r \in Members(e) : InCycle(replays[r], e) = 1

\* C3: every queue entry is settled exactly once, by the refresh it was queued behind:
\* an entry on the queue was pushed in the running cycle and is not settled yet; an
\* entry pushed in a finished cycle was settled once, in that cycle (resolved when the
\* refresh resolved, rejected when it failed); nothing else is ever settled.
C3_QueueDrainedExactlyOnce ==
  /\ \A i \in DOMAIN requestQueue :
       LET r == requestQueue[i].promise
       IN /\ enq[r] # <<>>
          /\ enq[r][Len(enq[r])] = CurrentCycle
          /\ InCycle(settles[r], CurrentCycle) = 0
          /\ RefreshOutstanding
  /\ \A r \in Requests :
       /\ \A i \in DOMAIN enq[r] :
            enq[r][i] < CurrentCycle
              => /\ InCycle(settles[r], enq[r][i]) = 1
                 /\ \A j \in DOMAIN settles[r] :
                      settles[r][j].cycle = enq[r][i]
                        => settles[r][j].kind =
                             (IF cycles[enq[r][i]].ok THEN "resolve" ELSE "reject")
       /\ \A j \in DOMAIN settles[r] :
            \E i \in DOMAIN enq[r] : enq[r][i] = settles[r][j].cycle
       /\ phase[r] = "queued"
            => \E i \in DOMAIN requestQueue : requestQueue[i].promise = r

\* C3 witness: a refresh cycle has ended that had a request queued behind it.
C3_Witness ==
  /\ \E r \in Requests : settles[r] # <<>>
  /\ requestQueue = <<>>
  /\ ~isRefreshing

\* C4: when a refresh fails, the request that started it and every request queued
\* behind it are rejected with the refresh error itself, logout() ran once in that
\* cycle, the navigation target is '/login', and none of them was replayed in it.
C4_FailedRefreshRejectsAll ==
  \A e \in DOMAIN cycles :
    ~cycles[e].ok
      => /\ \A r \in Members(e) :
              /\ phase[r] = "rejected"
              /\ error[r] = RefreshError(e)
              /\ InCycle(replays[r], e) = 0
         /\ Cardinality({i \in DOMAIN logoutLog : logoutLog[i] = e}) = 1
         /\ locationHref = "/login"

\* C4 witness: a refresh failed with a request queued behind it.
C4_Witness ==
  \E e \in DOMAIN cycles : ~cycles[e].ok /\ Cardinality(Members(e)) >= 2

\* C5: whenever a refresh settles (resolved or rejected) isRefreshing becomes false; a
\* 401 handled when no refresh is in flight starts a refresh instead of being queued;
\* and, responses and refreshes being delivered, every request that waits on a refresh
\* is eventually fulfilled or rejected.
C5_FlagResetAndProgress ==
  /\ [][\A r \in Requests :
          (refreshCall[r] # "none" /\ refreshCall'[r] = "none") => isRefreshing' = FALSE]_vars
  /\ [][\A r \in Requests :
          (Handles401(r) /\ ~RefreshOutstanding)
            => (phase'[r] = "refreshing" /\ refreshCall'[r] # "none")]_vars
  /\ \A r \in Requests :
       (phase[r] \in {"queued", "refreshing"}) ~> (phase[r] \in {"fulfilled", "rejected"})

\* C5 witness: after a failed refresh cycle a new refresh has been started.
C5_Witness ==
  /\ \E e \in DOMAIN cycles : ~cycles[e].ok
  /\ RefreshOutstanding
  /\ isRefreshing

\* C6: a request the pipeline has already replayed (as the initiator of a refresh or
\* from the queue) is terminal when its replay fails: it starts no refresh, is not
\* queued, logout is not called and it is not replayed again.
C6_ReplayedRequestIsTerminal ==
  [][\A r \in Requests :
       (phase[r] = "sent" /\ replays[r] # <<>> /\ phase'[r] # "sent")
         => /\ phase'[r] \in {"fulfilled", "rejected"}
            /\ refreshLog' = refreshLog
            /\ logoutLog' = logoutLog
            /\ replays' = replays]_vars

\* ---------------------------------------------- claims, WebSocket manager
\* C7: multiplexing. In every reachable state at most one socket the manager created
\* for the url is CONNECTING or OPEN.
C7_OneLiveSocketPerUrl == Cardinality({s \in Sockets : Live(s)}) <= 1

\* C8: a replay delivers exactly the messages the history held when subscribe was
\* called, oldest first, whatever arrived between the call and the replay tick.
C8_ReplayIsHistoryAtSubscribe ==
  \A k \in DOMAIN replayLog : replayLog[k].replayed = replayLog[k].history

\* C9: while the replay a subscribe call scheduled has not run, no live message is
\* delivered to that subscriber.
C9_NoLiveBeforeReplay ==
  \A t \in DOMAIN replayTimers : replayTimers[t].live = <<>>

\* The last n elements of seq (all of it when it is shorter).
LastN(seq, n) == IF Len(seq) <= n THEN seq ELSE SubSeq(seq, Len(seq) - n + 1, Len(seq))

\* C10: the history of every connection holds at most 100 entries, and they are the
\* most recently received parseable messages in arrival order: all of them up to 100,
\* exactly the last 100 once more than 100 were received.
C10_BoundedHistory ==
  \A s \in Sockets :
    /\ Len(instances[s].lastMessages) <= 100
    /\ instances[s].lastMessages = LastN(arrived[s], 100)
    /\ Len(arrived[s]) > 100 => Len(instances[s].lastMessages) = 100

\* C10 witness: a connection that has received more than 100 parseable messages, and a
\* frame that did not parse.
C10_Witness ==
  \E s \in Sockets :
    /\ Len(arrived[s]) > 100
    /\ BadFrames > 0
    /\ Head(instances[s].lastMessages) # Head(arrived[s])

\* C11: after disconnect(url) the connection is ended and stays ended. The call leaves
\* no entry registered and no registered socket connecting or open, and, as long as
\* none of connect, subscribe and subscribeToStatus is called again, the manager
\* creates no socket for the url.
C11_DisconnectStaysEnded ==
  /\ [][Disconnect => /\ connections' = {}
                      /\ \A s \in connections : readyState'[s] \notin {"CONNECTING", "OPEN"}]_vars
  /\ [][(disconnected /\ Len(readyState') > Len(readyState)) => ~disconnected']_vars

\* The step is the close event of the registered socket s.
RegisteredCloses(s) ==
  s \in connections /\ readyState[s] # "CLOSED" /\ readyState'[s] = "CLOSED"

RegisteredLive == {s \in connections : readyState[s] \in {"CONNECTING", "OPEN"}}

\* The step creates exactly one socket and registers a fresh connection around it,
\* replacing whatever was registered, and touches no other socket or connection.
CreatesOne ==
  LET new == Len(readyState) + 1
  IN /\ Len(readyState') = new
     /\ Len(instances') = new
     /\ connections' = {new}
     /\ readyState'[new] = "CONNECTING"
     /\ instances'[new].isConnecting = TRUE
     /\ instances'[new].isConnected = FALSE
     /\ instances'[new].lastMessages = <<>>
     /\ \A s \in Sockets : readyState'[s] = readyState[s] /\ instances'[s] = instances[s]

\* C13: connect(url) is idempotent. When the registered socket is CONNECTING or OPEN it
\* creates no socket and returns the registered connection (subscribe adds its callback
\* to that one); otherwise it creates exactly one socket and registers a new connection
\* with isConnecting, not isConnected, no subscribers and an empty history.
C13_ConnectIdempotent ==
  /\ [][(Connect \/ ReconnectTimerFires) =>
          IF RegisteredLive # {}
            THEN /\ readyState' = readyState
                 /\ instances' = instances
                 /\ connections' = connections
            ELSE /\ CreatesOne
                 /\ instances'[Len(readyState')].subscribers = <<>>
                 /\ instances'[Len(readyState')].statusSubscribers = <<>>]_vars
  /\ [][\A cb \in Callbacks :
          (\E replayLast \in BOOLEAN : Subscribe(cb, replayLast)) =>
            IF RegisteredLive # {}
              THEN /\ readyState' = readyState
                   /\ connections' = connections
                   /\ \A s \in RegisteredLive : cb \in Range(instances'[s].subscribers)
              ELSE /\ CreatesOne
                   /\ instances'[Len(readyState')].subscribers = <<cb>>
                   /\ instances'[Len(readyState')].statusSubscribers = <<>>]_vars

\* C13 witness: connect replaced the entry of a socket that was closing by a new
\* connection; the application made two calls, the first of which created socket 1.
C13_Witness ==
  /\ calls = 2
  /\ readyState = <<"CLOSING", "CONNECTING">>
  /\ connections = {2}
  /\ instances[2].isConnecting

\* The step changes, on the whole manager, at most the given field of connection i.
OnlyFieldChanges(i, field) ==
  /\ \A s \in Sockets \ {i} : instances'[s] = instances[s]
  /\ \A f \in (DOMAIN instances[i]) \ {field} : instances'[i][f] = instances[i][f]
  /\ UNCHANGED <<readyState, connections, reconnectTimers, replayTimers, arrived, sent,
                 delivered, statusSeen>>

\* The sequence seq with x taken out and the order of the others kept.
Without(seq, x) == SelectSeq(seq, LAMBDA y : y # x)

\* C14: calling an unsubscribe function takes that callback, and nothing else, out of
\* its connection: no socket changes state, the registry, the histories and every other
\* data and status subscriber stay as they are, also when the set becomes empty; a
\* call for a callback that is no longer subscribed changes nothing.
C14_UnsubscribeRemovesOnlyCallback ==
  /\ [][\A i \in Sockets, cb \in Callbacks :
          Unsubscribe(i, cb) =>
            /\ OnlyFieldChanges(i, "subscribers")
            /\ instances'[i].subscribers = Without(instances[i].subscribers, cb)
            /\ cb \notin Range(instances[i].subscribers) => instances' = instances]_vars
  /\ [][\A i \in Sockets, cb \in StatusCallbacks :
          UnsubscribeStatus(i, cb) =>
            /\ OnlyFieldChanges(i, "statusSubscribers")
            /\ instances'[i].statusSubscribers = Without(instances[i].statusSubscribers, cb)
            /\ cb \notin Range(instances[i].statusSubscribers) => instances' = instances]_vars

\* C14 witness: the only subscriber of an open connection has called its unsubscribe
\* function twice; the connection is still registered and open.
C14_Witness ==
  /\ unsubscribes = 2
  /\ Cardinality(handles) = 1
  /\ \E i \in connections :
       /\ readyState[i] = "OPEN"
       /\ <<"data", i, 1>> \in handles
       /\ instances[i].subscribers = <<>>

\* The step is a message event of socket s whose payload parsed.
MessageParsed(s) == frames' = frames + 1 /\ Len(arrived'[s]) = Len(arrived[s]) + 1

\* The live deliveries of connection s to the callback cb, in delivery order.
LiveOf(cb, s) ==
  SelectSeq(delivered[cb], LAMBDA d : d.via = "live" /\ d.instance = s)

\* C15: a parseable message is appended to the history of its connection and, in the
\* handling of the same event, delivered to every callback subscribed to the connection
\* at that moment, in the order they subscribed; so the live messages a callback gets
\* from a connection are in arrival order.
C15_FanOutToAllInOrder ==
  /\ [][\A s \in Sockets :
          MessageParsed(s) =>
            LET data == arrived'[s][Len(arrived'[s])]
                history == instances'[s].lastMessages
            IN /\ history # <<>>
               /\ history[Len(history)] = data
               /\ fanout' = instances[s].subscribers
               /\ \A cb \in Range(instances[s].subscribers) :
                    delivered'[cb] =
                      Append(delivered[cb], [msg |-> data, via |-> "live", instance |-> s])]_vars
  /\ [](\A cb \in Callbacks, s \in Sockets :
          \A j, k \in DOMAIN LiveOf(cb, s) :
            j < k => LiveOf(cb, s)[j].msg[2] < LiveOf(cb, s)[k].msg[2])

\* C16: send(url, data) hands the payload to the socket only when a connection is
\* registered for the url and its socket is OPEN: a string as it is, any other value
\* as its JSON text. In every other state nothing is sent; and in no state does send
\* create a connection or change the registry, a history or a subscriber set.
C16_SendOnlyWhenOpen ==
  [][\A data \in Payloads :
       SendData(data) =>
         /\ UNCHANGED <<readyState, instances, connections, reconnectTimers, arrived>>
         /\ \A s \in Sockets :
              sent'[s] =
                IF s \in connections /\ readyState[s] = "OPEN"
                  THEN Append(sent[s], IF data.type = "string" THEN <<"text", data.text>>
                                       ELSE <<"json", data.value>>)
                  ELSE sent[s]]_vars

\* C16 witness: the application's last call sent a string, as it is, on the registered
\* open connection.
C16_Witness ==
  /\ calls = MaxCalls
  /\ \E s \in connections :
       /\ readyState[s] = "OPEN"
       /\ sent[s] = << <<"text", "ping">> >>

\* ------------------------------------------------------- claims, retry
\* Every error operation has thrown so far was accepted as retryable.
AllAccepted ==
  \A k \in DOMAIN thrown : ~predicate \/ thrown[k].retryable

\* C17: for maxAttempts >= 1, operation is invoked at most maxAttempts times; when every
\* attempt failed with an error accepted as retryable it was invoked exactly maxAttempts
\* times and withRetry rejects with the error of the last attempt itself; when an
\* attempt succeeded withRetry resolves with the result of that attempt, and once
\* withRetry has settled operation is not invoked again.
C17_AtMostMaxAttempts ==
  /\ [](retryConfig.maxAttempts >= 1 =>
          /\ invocations <= retryConfig.maxAttempts
          /\ (retryPc = "rejected" /\ AllAccepted) =>
               /\ invocations = retryConfig.maxAttempts
               /\ Len(thrown) = retryConfig.maxAttempts
               /\ settled = thrown[Len(thrown)].error
               /\ settled = <<"error", retryConfig.maxAttempts>>
          /\ retryPc = "resolved" =>
               /\ settled = <<"result", invocations>>
               /\ Len(thrown) = invocations - 1)
  /\ [][(retryPc \in {"resolved", "rejected"}) => invocations' = invocations]_vars

\* C17 witness: three attempts were configured and all three failed with a retryable
\* error; two delays were waited in between.
C17_Witness ==
  /\ retryConfig.maxAttempts = 3
  /\ retryPc = "rejected"
  /\ AllAccepted
  /\ invocations = 3
  /\ Len(waited) = 2

\* The step is the failure of an attempt with an error the supplied predicate refuses.
RefusedError ==
  /\ predicate
  /\ Len(thrown') = Len(thrown) + 1
  /\ ~thrown'[Len(thrown')].retryable

\* C18: when the supplied predicate returns false for the error of an attempt,
\* withRetry rejects at once with that error: no delay is waited and operation is not
\* invoked again, whatever number of attempts is left.
C18_NonRetryableFailsFast ==
  /\ [][RefusedError =>
          /\ retryPc' = "rejected"
          /\ settled' = <<"error", invocations>>
          /\ settled' = thrown'[Len(thrown')].error
          /\ waited' = waited
          /\ invocations' = invocations]_vars
  /\ [][(retryPc = "rejected")
          => (retryPc' = "rejected" /\ UNCHANGED <<invocations, waited, settled>>)]_vars

\* C18 witness: the first of three attempts failed with an error the predicate refused.
C18_Witness ==
  /\ predicate
  /\ retryConfig.maxAttempts = 3
  /\ retryPc = "rejected"
  /\ invocations = 1
  /\ ~thrown[1].retryable
  /\ waited = <<>>

\* C19: with maxAttempts = 0, a call of withRetry invokes operation not at all and
\* rejects with a defined error (not with undefined).
C19_ZeroAttemptsRejectsDefined ==
  (retryConfig.maxAttempts = 0 /\ retryPc # "idle")
    => /\ invocations = 0
       /\ retryPc = "rejected"
       /\ settled # Undefined

\* min(initialDelay * backoffMultiplier^n, maxDelay) in exact arithmetic, for
\* initialDelay >= 0, maxDelay >= 0 and backoffMultiplier >= 1.
RECURSIVE CappedBackoff(_, _)
CappedBackoff(n, cfg) ==
  LET uncapped == IF n = 0 THEN cfg.initialDelay
                  ELSE CappedBackoff(n - 1, cfg) * cfg.backoffMultiplier
  IN IF uncapped <= cfg.maxDelay THEN uncapped ELSE cfg.maxDelay

\* C20: for every attempt n >= 0 and every configuration with initialDelay >= 0 and
\* backoffMultiplier >= 1, getRetryDelay(n, config) is
\* min(initialDelay * backoffMultiplier^n, maxDelay); it is at most maxDelay, does not
\* decrease with n, and stays at maxDelay once it has reached it.
C20_BackoffIsCappedExponential ==
  \A k \in DOMAIN schedule :
    /\ schedule[k] = CappedBackoff(k - 1, retryConfig)
    /\ Lte(schedule[k], retryConfig.maxDelay)
    /\ k > 1 => /\ Lte(schedule[k - 1], schedule[k])
                /\ schedule[k - 1] = retryConfig.maxDelay
                     => schedule[k] = retryConfig.maxDelay

\* ------------------------------------------------- claims, auth-service
\* The last auth-service call to complete was a login.
LoginReturned == authReturn # Null /\ authReturn.op = "login"

\* C21: after tokens were stored in the durable scope (a login with rememberMe),
\* getAccessToken() and getRefreshToken() return the access and the refresh token of
\* that pair, whatever the session scope holds.
C21_DurableRoundTrip ==
  (LoginReturned /\ authReturn.rememberMe)
    => /\ getAccessToken = authReturn.value.accessToken
       /\ getRefreshToken = authReturn.value.refreshToken

\* C21 witness: a durable login has completed while the session scope holds the
\* different tokens of an earlier login.
C21_Witness ==
  /\ LoginReturned
  /\ authReturn.rememberMe
  /\ sessionStorage.ACCESS_TOKEN # Null
  /\ sessionStorage.ACCESS_TOKEN # localStorage.ACCESS_TOKEN
  /\ localStorage.ACCESS_TOKEN = authReturn.value.accessToken

\* C22: after a login completed, with either value of rememberMe, getAccessToken() and
\* getRefreshToken() return the tokens that login returned, whatever earlier logins,
\* refreshes and logouts left in the two scopes.
C22_LoginRoundTrip ==
  LoginReturned
    => /\ getAccessToken = authReturn.value.accessToken
       /\ getRefreshToken = authReturn.value.refreshToken

\* The token string is three segments whose second decodes to a JSON object with an
\* exp claim greater than t + 30.
WellFormedAndFresh(token, t) ==
  /\ Len(token) = 3
  /\ token[2][1] = "b64url"
  /\ token[2][2][1] = "json"
  /\ token[2][2][2].type = "object"
  /\ "exp" \in DOMAIN token[2][2][2].fields
  /\ JsGt(token[2][2][2].fields.exp, t + 30)

\* C23: isTokenExpired(token) is false exactly when the token has three segments, its
\* second segment decodes to a JSON object with an exp claim and exp > now + 30; it is
\* true when exp <= now + 30, when the claim is missing and when the token is
\* malformed.
C23_ExpiredUnlessWellFormedAndFresh ==
  probe # Null => (probe.result = FALSE <=> WellFormedAndFresh(probe.token, probe.now))

\* The scope holding the active pair: the durable one when it holds an access token.
ActiveScope == IF localStorage.ACCESS_TOKEN # Null THEN "local" ELSE "session"

\* The exp claim of a token generateMockToken made.
ExpOf(token) == token[2][2][2].fields.exp.value

StatusIn(appError, low, high) ==
  "statusCode" \in DOMAIN appError /\ appError.statusCode >= low /\ appError.statusCode <= high
NamedRetryable(appError) ==
  \/ appError.category \in {ErrorCategory.NETWORK, ErrorCategory.WEBSOCKET}
  \/ StatusIn(appError, 500, 999)
  \/ Includes(appError.code, "TIMEOUT")
NamedNotRetryable(appError) ==
  \/ appError.code = <<"RATE", "LIMIT">>
  \/ StatusIn(appError, 400, 499)
  \/ appError.category \in {ErrorCategory.AUTHENTICATION, ErrorCategory.VALIDATION}

\* C25 (as amended): for every AppError over the closed sets of category,
\* statusCode and code, isRetryableError returns true exactly when the category
\* is NETWORK or WEBSOCKET, or statusCode >= 500, or code contains 'TIMEOUT';
\* these rules take precedence, so a rate-limit error, an error with a 4xx
\* statusCode and an error of category AUTHENTICATION or VALIDATION get false
\* only when none of them applies, and everything else gets false.
C25_RetryableByPrecedence ==
  retryCheck # Null => (retryCheck.result <=> NamedRetryable(retryCheck.input))

\* C25 (as stated): isRetryableError returns true when the category is NETWORK
\* or WEBSOCKET, when statusCode >= 500, or when code contains 'TIMEOUT'; false
\* for every rate-limit error, every error with a 4xx statusCode and every error
\* of category AUTHENTICATION or VALIDATION; and false for everything else.
C25_RetryableAsStated ==
  retryCheck # Null =>
    /\ NamedRetryable(retryCheck.input) => retryCheck.result
    /\ NamedNotRetryable(retryCheck.input) => ~retryCheck.result
    /\ ~NamedRetryable(retryCheck.input) /\ ~NamedNotRetryable(retryCheck.input)
         => ~retryCheck.result

\* An error two of the stated rules disagree on has been judged: a rate-limit
\* code on an error of category NETWORK.
C25_Witness ==
  /\ retryCheck # Null
  /\ retryCheck.input.category = ErrorCategory.NETWORK
  /\ retryCheck.input.code = <<"RATE", "LIMIT">>
  /\ retryCheck.result

\* C26: handleApiError is a total classification with the precedence
\* no response => NETWORK; 401 => AUTHENTICATION (AUTH_ERROR); 403 =>
\* AUTHENTICATION (FORBIDDEN); 404 => API (NOT_FOUND); 429 => API (RATE_LIMIT);
\* any other 400-499 => VALIDATION (CLIENT_ERROR); any status >= 500 => API
\* (SERVER_ERROR); any other status => UNKNOWN. Every input maps to one category
\* of the six-value taxonomy, and statusCode is carried whenever a response
\* exists.
C26_TotalClassification ==
  classified # Null =>
    LET e == classified.input
        a == classified.output
        is(category, code) == a.category = category /\ a.code = code
    IN /\ a.category \in Categories
       /\ Cardinality(Categories) = 6
       /\ "response" \notin DOMAIN e =>
            a.category = ErrorCategory.NETWORK /\ "statusCode" \notin DOMAIN a
       /\ "response" \in DOMAIN e =>
            LET status == e.response.status
            IN /\ "statusCode" \in DOMAIN a /\ a.statusCode = status
               /\ CASE status = 401 -> is(ErrorCategory.AUTHENTICATION, <<"AUTH", "ERROR">>)
                    [] status = 403 -> is(ErrorCategory.AUTHENTICATION, <<"FORBIDDEN">>)
                    [] status = 404 -> is(ErrorCategory.API, <<"NOT", "FOUND">>)
                    [] status = 429 -> is(ErrorCategory.API, <<"RATE", "LIMIT">>)
                    [] status \in (400..499) \ {401, 403, 404, 429} ->
                         is(ErrorCategory.VALIDATION, <<"CLIENT", "ERROR">>)
                    [] status >= 500 -> is(ErrorCategory.API, <<"SERVER", "ERROR">>)
                    [] OTHER -> a.category = ErrorCategory.UNKNOWN

\* A 404 response has been classified as API / NOT_FOUND with its status carried.
C26_Witness ==
  /\ classified # Null
  /\ "response" \in DOMAIN classified.input
  /\ classified.input.response.status = 404
  /\ classified.output.category = ErrorCategory.API
  /\ classified.output.statusCode = 404

\* C27: for every HTTP failure e, isRetryableError(handleApiError(e)) is true
\* exactly when e has no response or its status is >= 500; a 429 response is
\* classified as API / RATE_LIMIT, its message names the retry-after seconds when
\* the header is present, and it is not retryable; no 4xx response is retryable.
C27_RetryableFailures ==
  classified # Null =>
    LET e == classified.input
        a == classified.output
        answered == "response" \in DOMAIN e
    IN /\ classified.retryable <=> (~answered \/ e.response.status >= 500)
       /\ answered /\ e.response.status = 429 =>
            /\ a.category = ErrorCategory.API
            /\ a.code = <<"RATE", "LIMIT">>
            /\ e.response.retryAfter.present =>
                 \E i \in 1..(Len(a.message) - 2) :
                   /\ a.message[i] = "in"
                   /\ a.message[i + 1] = e.response.retryAfter.value
                   /\ a.message[i + 2] = "seconds"
            /\ ~classified.retryable
       /\ answered /\ e.response.status \in 400..499 => ~classified.retryable

\* A 429 response with retry-after "60" has been classified and found not retryable.
C27_Witness ==
  /\ classified # Null
  /\ "response" \in DOMAIN classified.input
  /\ classified.input.response.status = 429
  /\ classified.input.response.retryAfter.present
  /\ classified.output.message = <<"Too many requests. Please try again", "in", "60", "seconds">>
  /\ ~classified.retryable


\* ---- Raw reconnecting socket
\* min(reconnectionDelay * 2^k, reconnectionDelayMax)
BackoffDelay(k) ==
  MathMin(Times(options.reconnectionDelay, MathPow(2, k)), options.reconnectionDelayMax)

RegisteredAtTurn(before, invoked, unsub, k) ==
  \A j \in 1..(k - 1) : before[j] \in Range(invoked) => before[k] \notin unsub[before[j]]

ReplayOf(msgs, i) == [k \in DOMAIN msgs |-> [msg |-> msgs[k], via |-> "replay", instance |-> i]]

\* C30: a replay triggered by one subscriber's subscribe call invokes only that
\* subscriber's callback and leaves the history and all other subscribers untouched;
\* each subscriber receives its own full replay of what was buffered when it joined,
\* whenever the others joined; and a subscribe with replay disabled or with an empty
\* history schedules no replay at all.
C30_ReplayIsPrivate ==
  /\ [][ReplayTimerFires =>
          LET t == Head(replayTimers)
          IN /\ delivered'[t.callback] = delivered[t.callback] \o ReplayOf(t.history, t.instance)
             /\ \A cb \in Callbacks \ {t.callback} : delivered'[cb] = delivered[cb]
             /\ instances' = instances]_vars
  /\ [][\A cb \in Callbacks, replayLast \in BOOLEAN :
          Subscribe(cb, replayLast) =>
            LET history == instances'[ConnectReturns].lastMessages
            IN /\ delivered' = delivered
               /\ IF replayLast /\ history # <<>>
                    THEN /\ Len(replayTimers') = Len(replayTimers) + 1
                         /\ replayTimers'[Len(replayTimers')].callback = cb
                         /\ replayTimers'[Len(replayTimers')].history = history
                    ELSE replayTimers' = replayTimers]_vars


\* ---- Frames that do not parse
\* A step that handles a frame JSON.parse rejects.
FrameDropped == frames' = frames + 1 /\ arrived' = arrived

\* C31: an inbound frame that cannot be parsed as JSON is dropped: it is not appended
\* to the history, no subscriber callback is invoked for it, the connection's status
\* and error fields are unchanged, and later frames are processed normally.
C31_UnparseableFrameDropped ==
  /\ [][FrameDropped =>
          /\ instances' = instances
          /\ delivered' = delivered
          /\ fanout' = <<>>
          /\ statusSeen' = statusSeen
          /\ readyState' = readyState
          /\ connections' = connections]_vars
  /\ [][\A s \in Sockets :
          MessageParsed(s) /\ BadFrames > 0 =>
            LET data == arrived'[s][Len(arrived'[s])]
                history == instances'[s].lastMessages
                subscribers == instances[s].subscribers
            IN /\ data = <<"data", frames + 1>>
               /\ history = Buffered(instances[s].lastMessages, data, 100)
               /\ subscribers # <<>> =>
                    /\ fanout' # <<>>
                    /\ delivered'[Head(subscribers)] =
                         Append(delivered[Head(subscribers)],
                                [msg |-> data, via |-> "live", instance |-> s])]_vars

\* A frame was dropped and the next frame was buffered and delivered to a subscriber.
C31_Witness ==
  /\ frames = 2
  /\ BadFrames = 1
  /\ \E s \in Sockets :
       /\ instances[s].lastMessages = <<<<"data", 2>>>>
       /\ \E cb \in Callbacks :
            delivered[cb] = <<[msg |-> <<"data", 2>>, via |-> "live", instance |-> s]>>


\* ---- Waits between attempts
\* C32: after a failed attempt i (0-based) that is retryable and not the last allowed
\* attempt, attempt i + 1 starts only after a wait of getRetryDelay(i, config), and not
\* before; no wait happens before the first attempt, after a success, or after the final
\* failed attempt (the rejection is immediate).
C32_WaitBetweenAttempts ==
  /\ [](/\ \A k \in DOMAIN waited : waited[k] = getRetryDelay(k - 1, retryConfig)
        /\ retryPc = "idle" => waited = <<>>
        /\ retryPc \in {"operation", "resolved"} => Len(waited) = invocations - 1
        /\ retryPc = "sleep" => Len(waited) = invocations /\ Len(thrown) = invocations
        /\ retryPc = "rejected" /\ thrown # <<>> => Len(waited) = Len(thrown) - 1)
  /\ [][(invocations' = invocations + 1) =>
          \/ retryPc = "idle" /\ invocations = 0 /\ waited = <<>>
          \/ /\ retryPc = "sleep"
             /\ attempt' = attempt + 1
             /\ waited' = waited
             /\ waited[attempt'] = getRetryDelay(attempt, retryConfig)]_vars
  /\ [][(Len(thrown') = Len(thrown) + 1) =>
          LET retried == Accepts(predicate, thrown'[Len(thrown')].retryable)
                           /\ attempt + 1 < retryConfig.maxAttempts
          IN IF retried
               THEN retryPc' = "sleep" /\ Len(waited') = Len(waited) + 1
               ELSE retryPc' = "rejected" /\ waited' = waited]_vars
  /\ [][(retryPc \in {"resolved", "rejected"}) => waited' = waited]_vars

\* The third attempt has started after the waits 1000 and 2000.
C32_Witness ==
  /\ retryPc = "operation"
  /\ invocations = 3
  /\ waited = <<1000, 2000>>


\* ---- Subscriptions across a reconnect
\* The data and the status callbacks subscribed and not unsubscribed.
Subscribed == UNION {Range(instances[i].subscribers) : i \in Sockets}
StatusSubscribed == UNION {Range(instances[i].statusSubscribers) : i \in Sockets}

\* C33: a data or status subscription made for the url, and not unsubscribed, stays
\* attached to the url across an unclean close and the automatic reconnect: it is a
\* subscriber of the connection the reconnect registers, so that connection's messages
\* and status changes are delivered to it.
C33_SubscriptionsSurviveReconnect ==
  [][ReconnectTimerFires =>
       \A s \in connections' :
         /\ Subscribed \subseteq Range(instances'[s].subscribers)
         /\ StatusSubscribed \subseteq Range(instances'[s].statusSubscribers)]_vars


\* ---- Close events of superseded sockets
\* The step is the close event of a socket that is not the registered one.
SupersededCloses(s) ==
  /\ s \notin connections
  /\ readyState[s] # "CLOSED"
  /\ readyState'[s] = "CLOSED"

\* C34: the close event of a socket that is no longer the one registered for its url
\* does not remove or change the newer registered connection; in every reachable
\* state every socket the manager created that is CONNECTING or OPEN is the socket of
\* the connection registered under its url.
C34_LiveSocketIsRegistered ==
  /\ [](\A s \in Sockets : Live(s) => s \in connections)
  /\ [][\A s \in Sockets :
          SupersededCloses(s) =>
            /\ connections' = connections
            /\ \A r \in connections : instances'[r] = instances[r]]_vars


\* ---- Invocations after unsubscribe
\* C35: after the unsubscribe function returned by subscribe has been called, the
\* callback is not invoked again by the manager, neither by a live fan-out nor by a
\* replay scheduled before the unsubscribe that fires after it: every invocation of a
\* callback for a connection finds it in the subscriber set of that connection.
C35_NoInvocationAfterUnsubscribe ==
  [][\A cb \in Callbacks :
       delivered'[cb] # delivered[cb] =>
         LET last == delivered'[cb][Len(delivered'[cb])]
         IN cb \in Range(instances[last.instance].subscribers)]_vars


\* ---- The refresh queue
\* C36: in every reachable state of the HTTP pipeline the refresh queue is non-empty
\* only while isRefreshing is true: whenever no refresh is in flight, no request is
\* waiting in the queue.
C36_QueueOnlyWhileRefreshing == ~isRefreshing => requestQueue = <<>>


\* Requests waited in the queue during a refresh that failed, and none waits now that
\* no refresh is in flight.
C36_Witness ==
  /\ ~isRefreshing
  /\ requestQueue = <<>>
  /\ cycles # <<>>
  /\ ~cycles[Len(cycles)].ok
  /\ \E r \in Requests : enq[r] # <<>> /\ phase[r] = "rejected"


\* ---- Logout
\* Both storage scopes hold no token.
NoTokenStored == localStorage = EmptyStorage /\ sessionStorage = EmptyStorage

\* C37: once logout() has run, both storage scopes hold no token: getAccessToken() and
\* getRefreshToken() return null and isAuthenticated() is false in every later state
\* until the next login stores its tokens, including when a refreshAccessToken call
\* was in flight at the time of the logout and completes afterwards.
C37_LogoutIsFinal ==
  /\ [][Logout => NoTokenStored']_vars
  /\ [][(NoTokenStored /\ ~LoginCompletes) =>
          /\ NoTokenStored'
          /\ getAccessToken' = Null
          /\ getRefreshToken' = Null
          /\ ~isAuthenticated(now)']_vars


\* ---- Raw socket: one live socket
\* The sockets of the hook that are CONNECTING or OPEN.
RawLive == {s \in DOMAIN rawSockets : rawSockets[s] \in {"CONNECTING", "OPEN"}}

\* C38: for one raw reconnecting socket instance, at most one underlying socket it
\* created is CONNECTING or OPEN at any time and the socket reference points to it;
\* connect() while a socket is connecting, or a reconnect timer firing after a manual
\* connect(), creates no second live socket, and the close event of a superseded socket
\* does not clear the reference to the current one.
C38_OneLiveRawSocket ==
  /\ [](Cardinality(RawLive) <= 1 /\ \A s \in RawLive : wsRef = s)
  /\ [][\A s \in DOMAIN rawSockets, wasClean \in BOOLEAN :
          RawClose(s, wasClean) /\ wsRef # s => wsRef' = wsRef]_vars


\* ---- Raw socket: disconnect
\* C39: after disconnect() on the raw reconnecting socket no reconnect attempt is made
\* until connect() is called again: a pending reconnect timer is cancelled, the attempt
\* counter is reset to 0, and the close event caused by disconnect() itself (whether the
\* socket was open or still connecting) schedules no new reconnect.
C39_DisconnectStopsReconnecting ==
  /\ [][RawDisconnect =>
          /\ \A t \in DOMAIN rawTimers' : rawTimers'[t].state # "pending"
          /\ reconnectAttemptsRef' = 0]_vars
  /\ [][\A s \in DOMAIN rawSockets, wasClean \in BOOLEAN :
          RawClose(s, wasClean) /\ rawSockets[s] \in {"CLOSING", "ABORTED"} =>
            rawTimers' = rawTimers]_vars


\* ---- A subscriber that throws
\* C40: a subscriber callback that throws while a message is fanned out does not
\* prevent the delivery of that message to the subscribers registered after it, and
\* does not affect the connection's history, status or later messages.
C40_ThrowingSubscriberIsIsolated ==
  [][\A s \in Sockets :
       MessageParsed(s) =>
         LET data == arrived'[s][Len(arrived'[s])]
             subscribers == instances[s].subscribers
         IN /\ \A k \in DOMAIN subscribers :
                 k > 1 =>
                   delivered'[subscribers[k]] =
                     Append(delivered[subscribers[k]],
                            [msg |-> data, via |-> "live", instance |-> s])
            /\ instances'[s].lastMessages = Buffered(instances[s].lastMessages, data, 100)
            /\ Status(instances'[s]) = Status(instances[s])
            /\ readyState' = readyState
            /\ instances'[s].subscribers = subscribers]_vars

====
